---- MODULE Spec2Model ----
(***************************************************************************)
(* Model of the btc-recovery-bot orchestration layer (src/bot.js): the     *)
(* Telegram poll loop, runLongOp, the stop flag, and the check handlers    *)
(* that drive the balance oracle and the global word-result cache.         *)
(* The libraries lib/session, lib/bitcoin and lib/balance-checker are not  *)
(* part of src/; their operations are modelled from the specification.     *)
(***************************************************************************)
EXTENDS Integers, Sequences, FiniteSets, TLC

(* ------------------------------ bounds --------------------------------- *)
MaxUpdates == 2      \* Telegram updates delivered in one behaviour
MaxBatch == 2        \* longest word list handed to a list handler
MaxIdx == 2          \* largest per-chat 'indices' setting
MaxOracleAddrs == 2  \* longest address list handed to the balance oracle
MaxCount == 1        \* ProviderHealth counters saturate here
MaxInFlight == 2     \* fan-out of one checkBalances call
MaxHunt == 2         \* largest key count asked of the random key hunt

(* ------------------------- program constants --------------------------- *)
ADDRESS_CAP == 50            \* maxAddresses literal passed to checkBalances
DICT_INDEX_COUNT == 3        \* index count used by handleDictionary

Chats == {1, 2}
Phrases == {<<"A">>, <<"b">>}
DictWords == << <<"a">>, <<"b">> >>
Repeats == <<12, 24>>
Paths == <<"bip44">>

(* ------------------------------ helpers -------------------------------- *)
Min(a, b) == IF a < b THEN a ELSE b

ToSet(s) == {s[j] : j \in 1..Len(s)}

RECURSIVE Flatten(_)
Flatten(ss) == IF ss = <<>> THEN <<>> ELSE Head(ss) \o Flatten(Tail(ss))

\* [...new Set(list)]: drop later duplicates, keep first-seen order
RECURSIVE DedupFrom(_, _)
DedupFrom(s, seen) ==
    IF s = <<>> THEN <<>>
    ELSE IF Head(s) \in seen THEN DedupFrom(Tail(s), seen)
         ELSE <<Head(s)>> \o DedupFrom(Tail(s), seen \cup {Head(s)})

Dedup_None(s) == s

Dedup(s) == DedupFrom(s, {})

(* ------------------------ phrase normalisation ------------------------- *)
LowerChar(c) == CASE c = "A" -> "a" [] c = "B" -> "b" [] OTHER -> c

RECURSIVE TrimLeft(_)
TrimLeft(p) == IF p # <<>> /\ Head(p) = " " THEN TrimLeft(Tail(p)) ELSE p

RECURSIVE TrimRight(_)
TrimRight(p) ==
    IF p # <<>> /\ p[Len(p)] = " " THEN TrimRight(SubSeq(p, 1, Len(p) - 1)) ELSE p

ToLowerCase(p) == [j \in 1..Len(p) |-> LowerChar(p[j])]

\* cache key of a phrase: case- and whitespace-normalised
NormalizeWord_CaseSensitive(p) == TrimRight(TrimLeft(p))

NormalizeWord(p) == ToLowerCase(TrimRight(TrimLeft(p)))

Keys == {NormalizeWord(p) : p \in Phrases}

\* phrases as callers of the cache write them: the phrases above in other
\* letter case and with blanks before or after
CachePhrases == Phrases \cup {<<"a">>, <<" ", "a">>, <<"A", " ">>, <<"B">>, <<" ", "b", " ">>}

\* the strings the store is keyed by: the keys of every phrase a caller writes
KeySpace == Keys \cup {NormalizeWord(p) : p \in CachePhrases}

(* --------------------------- derivation -------------------------------- *)
\* wordEngine.generateVariations(word, depth): ordered variants of a phrase
GenerateVariations(word, depth) ==
    IF depth = "extreme" THEN <<word, ToLowerCase(word), Append(word, "1")>>
    ELSE <<word, ToLowerCase(word)>>

\* bitcoin.getBrainWalletAddresses(bitcoin.deriveBrainWallet(p)):
\* compressed and uncompressed legacy address
BrainWalletAddresses(p) == << <<p, "brain", "c">>, <<p, "brain", "u">> >>

\* bitcoin.getRepeatedSeedAddresses(bitcoin.deriveRepeatedWordSeed(p, count, paths, indices))
RepeatedSeedAddresses(p, count, paths, indices) ==
    Flatten([pi \in 1..Len(paths) |->
        Flatten([ix \in 1..indices |->
            << <<p, count, paths[pi], ix - 1, "legacy">>,
               <<p, count, paths[pi], ix - 1, "native">> >>])])

\* the derivation loop of handleWordCheck for one variant
WordCheckVariantAddresses(variant, indices) ==
    Flatten([ri \in 1..Len(Repeats) |->
        RepeatedSeedAddresses(variant, Repeats[ri], Paths, indices)])
    \o BrainWalletAddresses(variant)

\* allAddresses of handleWordCheck when the derivation loop ends, before the
\* dedup, under configuration cfg (the settings read at the top of the handler)
DeriveAllAddresses(word, cfg) ==
    LET vs == IF cfg.variations THEN GenerateVariations(word, cfg.var_depth) ELSE <<word>>
    IN Flatten([vi \in 1..Len(vs) |->
           (IF cfg.bip39
            THEN Flatten([ri \in 1..Len(cfg.repeats) |->
                     RepeatedSeedAddresses(vs[vi], cfg.repeats[ri], cfg.paths, cfg.indices)])
            ELSE <<>>)
           \o (IF cfg.brain THEN BrainWalletAddresses(vs[vi]) ELSE <<>>)])

\* the configurations a chat's settings can hold
DerivationConfigs ==
    [variations : BOOLEAN, var_depth : {"normal", "extreme"}, bip39 : BOOLEAN,
     brain : BOOLEAN, repeats : {<<12>>, <<12, 24>>, <<24, 24>>},
     paths : {<<"bip44">>, <<"bip44", "bip84">>}, indices : 1..MaxIdx]

\* allAddresses of handleWordCheck before the dedup, under the settings the model keeps
WordCheckDerived(word, st) ==
    LET vs == GenerateVariations(word, st.var_depth)
    IN Flatten([vi \in 1..Len(vs) |-> WordCheckVariantAddresses(vs[vi], st.indices)])

\* allAddresses of handleWordCheck after derivation and dedup
WordCheckAddresses(word, st) == Dedup(WordCheckDerived(word, st))

\* bitcoin.fullWordCheck(word, settings).allAddresses
FullWordCheck(word, st) == WordCheckAddresses(word, st)

\* addresses handleDictionary derives for one repeat count
DictionaryAddresses(word, count) ==
    RepeatedSeedAddresses(word, count, <<"bip44">>, DICT_INDEX_COUNT)

(* ------------------------------- state --------------------------------- *)
VARIABLES
    inbox,            \* updates Telegram holds, in update_id order (id = position)
    lastUpdateId,     \* let lastUpdateId
    batchEnd,         \* id of the last update returned by the pending getUpdates
    pollPc,           \* position of the pollUpdates body: idle / getUpdates / loop / await
    isPolling,        \* let isPolling
    isShuttingDown,   \* let isShuttingDown
    stopCurrentBatch, \* let stopCurrentBatch
    longRunning,      \* let longRunning
    ops,              \* handler invocations that have started and not yet settled
    wordCache,        \* session's global word-result cache, keyed by normalised phrase
    settings,         \* per-chat settings (lib/settings)
    cacheGhost,       \* history: how the check that wrote each cache record ended
    trackHistory,     \* whether this specification keeps history (cacheGhost, born)
    health,           \* balance oracle: ProviderHealth of every registered provider
    call,             \* balance oracle: the checkBalances call in progress
    session           \* lib/session: the persisted store, the last call on the cache,
                      \* every chat's session object and (history) the kind of the
                      \* last update handled for the chat; with the store, the
                      \* file settings.save() writes

vars == <<inbox, lastUpdateId, batchEnd, pollPc, isPolling, isShuttingDown,
          stopCurrentBatch, longRunning, ops, wordCache, settings, cacheGhost,
          trackHistory, health, call, session>>

oracleVars == <<health, call>>

pollVars == <<inbox, lastUpdateId, batchEnd, pollPc, isPolling>>

\* the history of a record written for phrase by a check on addrs that ended with out
RecordHistory(ghost, phrase, complete, covered) ==
    IF trackHistory
    THEN [ghost EXCEPT ![NormalizeWord(phrase)] = [complete |-> complete, covered |-> covered]]
    ELSE ghost

NoRecord == [present |-> FALSE, hasBalance |-> FALSE, balance |-> 0, addressCount |-> 0]
NoGhost == [complete |-> TRUE, covered |-> {}]

UpdateTypes == {"stop", "other"}

WordLists == UNION {[1..n -> Phrases] : n \in 1..MaxBatch}

\* handleFeelingLucky's luckyWords: candidates the bot generates itself; they
\* are never looked up in the cache, so only their number matters
LuckyLists == {[j \in 1..n |-> <<"g">>] : n \in 1..MaxBatch}

(* ----------------------- session word cache ---------------------------- *)
\* session.getCachedWordResult(phrase)
GetCachedWordResult(cache, phrase) == cache[NormalizeWord(phrase)]

\* what a handler sees of the record: absent, hasBalance false, hasBalance true
CacheLookup(cache, phrase) ==
    LET r == GetCachedWordResult(cache, phrase)
    IN IF r = NoRecord THEN "none" ELSE IF r.hasBalance THEN "true" ELSE "false"

\* session.cacheWordResult(phrase, hasBalance, balanceTotal, addressCount): upsert
CacheWordResult_Evicting(cache, phrase, hasBalance, balanceTotal, addressCount) ==
    [k \in DOMAIN cache |->
        IF k = NormalizeWord(phrase)
        THEN [present |-> TRUE, hasBalance |-> hasBalance, balance |-> balanceTotal,
              addressCount |-> addressCount]
        ELSE NoRecord]

CacheWordResult_InsertOnly(cache, phrase, hasBalance, balanceTotal, addressCount) ==
    IF cache[NormalizeWord(phrase)] # NoRecord THEN cache
    ELSE [cache EXCEPT ![NormalizeWord(phrase)] =
             [present |-> TRUE, hasBalance |-> hasBalance, balance |-> balanceTotal,
              addressCount |-> addressCount]]

CacheWordResult(cache, phrase, hasBalance, balanceTotal, addressCount) ==
    [cache EXCEPT ![NormalizeWord(phrase)] =
        [present |-> TRUE, hasBalance |-> hasBalance, balance |-> balanceTotal,
         addressCount |-> addressCount]]

\* session.getWordCacheSize()
GetWordCacheSize(cache) == Cardinality({k \in DOMAIN cache : cache[k] # NoRecord})

\* the cache of a process that has recorded nothing
EmptyCache == [k \in KeySpace |-> NoRecord]

\* the records of a cache, each with its key
RecordsOf(cache) == {<<k, cache[k]>> : k \in {x \in DOMAIN cache : cache[x] # NoRecord}}

\* session.saveSessions(): the store holds one entry per recorded phrase
SaveSessions(cache) == RecordsOf(cache)

\* session.loadSessions(): the cache rebuilt from the store's entries
LoadSessions_Nothing(disk) == EmptyCache

LoadSessions(disk) ==
    [k \in KeySpace |->
        IF \E e \in disk : e[1] = k THEN (CHOOSE e \in disk : e[1] = k)[2] ELSE NoRecord]

\* no call on the cache yet
NoCacheCall == [seq |-> 0, op |-> "none"]

\* explorers whose API key a chat can set (explorer_key:<value>), and the AI
\* providers it can add as fallback with a key (ai_fb_add:<provider>)
Explorers == {"blockchain", "blockcypher"}
FbProviders == {"groq"}

\* settings of a chat that has stored no explorer key
NoKeys == [e \in Explorers |-> <<>>]

\* the settings the process loads at its first start, which are the settings
\* file's content then
InitSettings ==
    [c \in Chats |-> [indices |-> IF c = 1 THEN 1 ELSE MaxIdx, var_depth |-> "normal",
                      explorer_keys |-> NoKeys, fallbacks |-> {}]]

\* session.getSession(chatId) of a chat the bot has not talked to yet
NewSession == [state |-> "idle", pendingExplorer |-> "null", pendingFbProvider |-> "null"]

\* a first start on an empty store
InitSession ==
    [up |-> TRUE, disk |-> {}, flushed |-> {}, crashed |-> FALSE, sizeAtStop |-> 0,
     last |-> NoCacheCall, sessions |-> [c \in Chats |-> NewSession],
     handled |-> [c \in Chats |-> "none"], settingsFile |-> InitSettings]

(* ----------------- balance oracle as seen by a handler ----------------- *)
\* how many of the n submitted addresses were answered: none, only the first, all
AnsweredChoices(n) == {0, n} \cup (IF n > 1 THEN {1} ELSE {})

\* outcomes of one balanceChecker.checkBalances call on n addresses (after the cap)
CheckBalancesOutcomes(n, stopAtCall) ==
    IF stopAtCall
    THEN {[k |-> 0, pos |-> FALSE, threw |-> FALSE]}
    ELSE {out \in [k : AnsweredChoices(n), pos : BOOLEAN, threw : {FALSE}] :
              out.pos => out.k > 0}
         \cup {[k |-> 0, pos |-> FALSE, threw |-> TRUE]}

\* outcomes of one balanceChecker.hasAnyBalance call (it is given no shouldStop)
HasAnyBalanceOutcomes(n) == CheckBalancesOutcomes(n, FALSE)

Capped(addrs, cap) == SubSeq(addrs, 1, Min(Len(addrs), cap))

Covered(addrs, cap, out) == ToSet(SubSeq(Capped(addrs, cap), 1, out.k))

Complete(addrs, cap, out) == ~out.threw /\ out.k = Len(Capped(addrs, cap))

(* ------------------- balance oracle: providers and state ---------------- *)
\* the registry of balance-data providers, in registry order
Providers == <<"A", "B">>

ProviderSet == ToSet(Providers)

RegistryIndex(p) == CHOOSE i \in 1..Len(Providers) : Providers[i] = p

\* ProviderHealth before any provider call
InitHealth == [p \in ProviderSet |-> [success |-> 0, failure |-> 0, cooling |-> FALSE]]

\* no checkBalances / hasAnyBalance call in progress
IdleCall ==
    [pc |-> "idle", op |-> "none", input |-> <<>>, cap |-> 0, pref |-> "auto",
     usesFlag |-> FALSE, capped |-> {}, beyond |-> {}, todo |-> {},
     inflight |-> {}, results |-> <<>>, failed |-> {}, stopSeen |-> FALSE,
     answers |-> {}, ret |-> [kind |-> "none", mapping |-> <<>>, any |-> FALSE]]

(* --------------------------- handler records --------------------------- *)
Handlers == {"word", "deep", "batch", "topic", "aitopic", "dict", "brain", "lucky", "keyhunt"}

NewOp(h, mode, chat, words) ==
    [h |-> h, mode |-> mode, chat |-> chat, words |-> words,
     lookups |-> [j \in 1..Len(words) |-> "na"],
     kept |-> <<>>, i |-> 0, rep |-> 0, pc |-> "start", addrs |-> <<>>,
     qd |-> {}, wr |-> {}, stopAtCall |-> FALSE, found |-> FALSE,
     broke |-> FALSE, oldDepth |-> "na", born |-> IF trackHistory THEN Len(inbox) ELSE 0,
     wcomplete |-> TRUE, wcovered |-> {}, stopFrom |-> 0, hist |-> FALSE,
     foundAny |-> FALSE, answered |-> 0]

RemoveOp(o) == SubSeq(ops, 1, o - 1) \o SubSeq(ops, o + 1, Len(ops))

Init ==
    /\ inbox = <<>>
    /\ lastUpdateId = 0
    /\ batchEnd = 0
    /\ pollPc = "idle"
    /\ isPolling = FALSE
    /\ isShuttingDown = FALSE
    /\ stopCurrentBatch = FALSE
    /\ longRunning = FALSE
    /\ ops = <<>>
    /\ wordCache = EmptyCache
    /\ settings = InitSettings
    /\ cacheGhost = [k \in Keys |-> NoGhost]
    /\ trackHistory = FALSE
    /\ health = InitHealth
    /\ call = IdleCall
    /\ session = InitSession

(* ---------------------------- environment ------------------------------ *)
\* a user sends a message or taps a button: Telegram queues the update
UserSends ==
    /\ ~isShuttingDown
    /\ Len(inbox) < MaxUpdates
    /\ \E t \in UpdateTypes : inbox' = Append(inbox, t)
    /\ UNCHANGED <<lastUpdateId, batchEnd, pollPc, isPolling, isShuttingDown,
                   stopCurrentBatch, longRunning, ops, wordCache, settings, cacheGhost, trackHistory, oracleVars, session>>

(* ------------------------------ runLongOp ------------------------------ *)
\* runLongOp(fn): reset the stop flag, mark running, start fn without awaiting it
RunLongOp(op) ==
    /\ stopCurrentBatch' = FALSE
    /\ longRunning' = TRUE
    /\ ops' = Append(ops, op)
    /\ pollPc' = "loop"

\* `await handler(...)` inside handleCommand / handleCallback: the poll loop waits
AwaitInline(op) ==
    /\ ops' = Append(ops, op)
    /\ pollPc' = "await"
    /\ UNCHANGED <<stopCurrentBatch, longRunning>>

(* ----------------------------- pollUpdates ----------------------------- *)
PollGuard_IgnoresShutdown == ~isPolling

\* `if (isPolling || isShuttingDown) return;`: may a body of pollUpdates start
PollGuard == ~(isPolling \/ isShuttingDown)

\* the 2-second timer fires pollUpdates; the guard on isPolling / isShuttingDown
PollStart ==
    /\ PollGuard
    /\ isPolling' = TRUE
    /\ pollPc' = "getUpdates"
    /\ UNCHANGED <<inbox, lastUpdateId, batchEnd, isShuttingDown, stopCurrentBatch,
                   longRunning, ops, wordCache, settings, cacheGhost, trackHistory, oracleVars, session>>

\* telegram.getUpdates(lastUpdateId + 1, 25) resolves with the queued updates
GetUpdatesReturns ==
    /\ ~isShuttingDown
    /\ pollPc = "getUpdates"
    /\ batchEnd' = Len(inbox)
    /\ pollPc' = "loop"
    /\ UNCHANGED <<inbox, lastUpdateId, isPolling, isShuttingDown, stopCurrentBatch,
                   longRunning, ops, wordCache, settings, cacheGhost, trackHistory, oracleVars, session>>

\* telegram.getUpdates rejects (timeout, network): catch, then finally
GetUpdatesThrows ==
    /\ ~isShuttingDown
    /\ pollPc = "getUpdates"
    /\ pollPc' = "idle"
    /\ isPolling' = FALSE
    /\ UNCHANGED <<inbox, lastUpdateId, batchEnd, isShuttingDown, stopCurrentBatch,
                   longRunning, ops, wordCache, settings, cacheGhost, trackHistory, oracleVars, session>>

\* the update the for-loop of pollUpdates takes next
NextUpdate == inbox[lastUpdateId + 1]

InLoop == ~isShuttingDown /\ pollPc = "loop" /\ lastUpdateId < batchEnd

\* `lastUpdateId = update.update_id`: the loop takes the update, which is then
\* behind the offset of every later getUpdates
TakeUpdate ==
    /\ lastUpdateId' = lastUpdateId + 1
    /\ inbox' = [inbox EXCEPT ![lastUpdateId + 1] = "taken"]

\* the operations in progress when chat c asks to stop; the history keeps, for
\* each, the chat whose request raised the flag it polls
StopRequestedBy(c) ==
    IF trackHistory
    THEN [o \in 1..Len(ops) |-> [ops[o] EXCEPT !.stopFrom = c]]
    ELSE ops

\* callback whose action is 'stop', or the text '/stop': set the flag, continue
DispatchStop ==
    /\ InLoop
    /\ NextUpdate = "stop"
    /\ TakeUpdate
    /\ stopCurrentBatch' = TRUE
    /\ \E c \in Chats : ops' = StopRequestedBy(c)
    /\ UNCHANGED <<batchEnd, pollPc, isPolling, isShuttingDown, longRunning,
                   wordCache, settings, cacheGhost, trackHistory, oracleVars, session>>

LongRunningGate_Missing == FALSE

\* the longRunning gate of pollUpdates: `if (longRunning) { ...; continue; }`
LongRunningGate == longRunning

\* any other update while a long operation runs: "An operation is running", continue
DispatchRejected ==
    /\ InLoop
    /\ NextUpdate = "other"
    /\ LongRunningGate
    /\ TakeUpdate
    /\ UNCHANGED <<batchEnd, pollPc, isPolling, isShuttingDown, stopCurrentBatch,
                   longRunning, ops, wordCache, settings, cacheGhost, trackHistory, oracleVars, session>>

\* handleMessage: what a text update starts, by its content
\*   plain text -> runLongOp(handleWordCheck); /batch, /dictionary -> runLongOp;
\*   /brain, /topic, /deep -> awaited inline by handleCommand
TextLaunches ==
    {[h |-> "word", mode |-> "long", words |-> <<p>>] : p \in Phrases}
    \cup {[h |-> "batch", mode |-> "long", words |-> ws] : ws \in WordLists}
    \cup {[h |-> "dict", mode |-> "long", words |-> DictWords]}
    \cup {[h |-> "brain", mode |-> "inline", words |-> <<p>>] : p \in Phrases}
    \cup {[h |-> "topic", mode |-> "inline", words |-> ws] : ws \in WordLists}
    \cup {[h |-> "deep", mode |-> "inline", words |-> <<p>>] : p \in Phrases}

\* keyhunt:<value>: Math.min(Math.max(parseInt(value) || 5, 1), 100)
HuntCount(value) ==
    LET parsed == IF value = 0 THEN 5 ELSE value
    IN Min(IF parsed < 1 THEN 1 ELSE parsed, 100)

\* bitcoin.deriveRawPrivateKey(crypto.randomBytes(32)): the draw yields a key
\* ("key") or is rejected with InvalidKeyMaterial ("invalid")
DrawOutcomes == {<<"key">>, <<"invalid">>}

\* the draws one key hunt makes: one per iteration of its generation loop
HuntDraws == UNION {[1..HuntCount(v) -> DrawOutcomes] : v \in 1..MaxHunt}

\* handleCallback: what a callback update starts, by its data
\*   explore, lucky, keyhunt, deep, ai_topic, check_word, smart_batch... -> runLongOp;
\*   pivot, dictionary, interview:check_extracted, bare topic key -> awaited inline
CallbackLaunches ==
    {[h |-> "word", mode |-> "long", words |-> <<p>>] : p \in Phrases}
    \cup {[h |-> "deep", mode |-> "long", words |-> <<p>>] : p \in Phrases}
    \cup {[h |-> "topic", mode |-> "long", words |-> ws] : ws \in WordLists}
    \cup {[h |-> "aitopic", mode |-> "long", words |-> ws] : ws \in WordLists}
    \cup {[h |-> "batch", mode |-> "long", words |-> ws] : ws \in WordLists}
    \cup {[h |-> "dict", mode |-> "long", words |-> DictWords]}
    \cup {[h |-> "lucky", mode |-> "long", words |-> ws] : ws \in LuckyLists}
    \cup {[h |-> "keyhunt", mode |-> "long", words |-> ds] : ds \in HuntDraws}
    \cup {[h |-> "batch", mode |-> "inline", words |-> ws] : ws \in WordLists}
    \cup {[h |-> "dict", mode |-> "inline", words |-> DictWords]}
    \cup {[h |-> "topic", mode |-> "inline", words |-> ws] : ws \in WordLists}

\* an update that starts a check handler
DispatchCheck ==
    /\ InLoop
    /\ NextUpdate = "other"
    /\ ~LongRunningGate
    /\ TakeUpdate
    /\ \E c \in Chats, l \in TextLaunches \cup CallbackLaunches :
          IF l.mode = "long"
          THEN RunLongOp(NewOp(l.h, l.mode, c, l.words))
          ELSE AwaitInline(NewOp(l.h, l.mode, c, l.words))
    /\ UNCHANGED <<batchEnd, isPolling, isShuttingDown, wordCache, settings,
                   cacheGhost, trackHistory, oracleVars, session>>

\* an update handled by a short handler (menus, /status, settings pages ...)
DispatchQuick ==
    /\ InLoop
    /\ NextUpdate = "other"
    /\ ~LongRunningGate
    /\ TakeUpdate
    /\ UNCHANGED <<batchEnd, pollPc, isPolling, isShuttingDown, stopCurrentBatch,
                   longRunning, ops, wordCache, settings, cacheGhost, trackHistory, oracleVars, session>>

\* handleCommand case '/stop' (a text such as "/stop now" that is not exactly '/stop')
DispatchStopCommand ==
    /\ InLoop
    /\ NextUpdate = "other"
    /\ ~LongRunningGate
    /\ TakeUpdate
    /\ stopCurrentBatch' = TRUE
    /\ UNCHANGED <<batchEnd, pollPc, isPolling, isShuttingDown, longRunning,
                   ops, wordCache, settings, cacheGhost, trackHistory, oracleVars, session>>

\* the for-loop is over: finally { isPolling = false }
PollEnd ==
    /\ ~isShuttingDown
    /\ pollPc = "loop"
    /\ lastUpdateId >= batchEnd
    /\ pollPc' = "idle"
    /\ isPolling' = FALSE
    /\ UNCHANGED <<inbox, lastUpdateId, batchEnd, isShuttingDown, stopCurrentBatch,
                   longRunning, ops, wordCache, settings, cacheGhost, trackHistory, oracleVars, session>>

\* what a stopping process leaves of its session state
Stopped_Unsaved(ss, cache) ==
    [ss EXCEPT !.up = FALSE, !.crashed = FALSE, !.sizeAtStop = GetWordCacheSize(cache)]

Stopped(ss, cache) ==
    [ss EXCEPT !.up = FALSE, !.crashed = FALSE, !.sizeAtStop = GetWordCacheSize(cache),
               !.disk = SaveSessions(cache), !.flushed = RecordsOf(cache)]

\* settings.save(): the file holds the settings of every chat as they are now
SettingsSave(st) == st

\* shutdown(): flags set, sessions and settings saved, process.exit(0): the
\* process and everything it was running are gone; the saved state remains
\* (wordCache keeps the memory the process had when it stopped; nothing reads
\* it until the next start loads the store)
Shutdown ==
    /\ session.up
    /\ ~isShuttingDown
    /\ isShuttingDown' = TRUE
    /\ stopCurrentBatch' = TRUE
    /\ ops' = <<>>
    /\ pollPc' = "idle"
    /\ isPolling' = FALSE
    /\ longRunning' = FALSE
    /\ session' = [Stopped(session, wordCache) EXCEPT !.settingsFile = SettingsSave(settings)]
    /\ UNCHANGED <<inbox, lastUpdateId, batchEnd, wordCache, settings, cacheGhost, trackHistory, oracleVars>>

(* --------------------------- handler steps ----------------------------- *)
Running(o) == ~isShuttingDown /\ o \in 1..Len(ops)

\* the handler's promise settles: runLongOp's finally, or the poll loop's await returns
Settle_GateLeftShut(o) ==
    /\ ops' = RemoveOp(o)
    /\ IF ops[o].mode = "long"
       THEN /\ longRunning' = (ops[o].pc # "finish")
            /\ stopCurrentBatch' = FALSE
            /\ UNCHANGED pollPc
       ELSE /\ pollPc' = "loop"
            /\ UNCHANGED <<longRunning, stopCurrentBatch>>

Settle(o) ==
    /\ ops' = RemoveOp(o)
    /\ IF ops[o].mode = "long"
       THEN /\ longRunning' = FALSE
            /\ stopCurrentBatch' = FALSE
            /\ UNCHANGED pollPc
       ELSE /\ pollPc' = "loop"
            /\ UNCHANGED <<longRunning, stopCurrentBatch>>

SkipOnCache_AnyRecord(lk) == lk # "none"

\* the skip test the handlers apply to a cache lookup: cached && !cached.hasBalance
SkipOnCache(lk) == lk = "false"

WritesBackAfter_InsideTry(out) == ~out.threw

\* cacheWordResult follows the try/catch around checkBalances: it runs whether
\* the call returned or threw
WritesBackAfter(out) == TRUE

\* handleDeepCheck, up to the first await inside handleWordCheck
HandleDeepCheckStart ==
    \E o \in 1..Len(ops) :
    /\ Running(o)
    /\ ops[o].h = "deep" /\ ops[o].pc = "start"
    /\ settings' = [settings EXCEPT ![ops[o].chat].var_depth = "extreme"]
    /\ ops' = [ops EXCEPT ![o].oldDepth = settings[ops[o].chat].var_depth,
                          ![o].pc = "wstart"]
    /\ UNCHANGED <<pollVars, isShuttingDown, stopCurrentBatch, longRunning, wordCache,
                   cacheGhost, trackHistory, oracleVars, session>>

AtWordCheckStart(op) ==
    \/ op.h = "word" /\ op.pc = "start"
    \/ op.h = "deep" /\ op.pc = "wstart"

SkipsBalancePhase_Never(stop) == FALSE

\* `if (!stopCurrentBatch) { balance phase } else { "Stopped by user after
\* derivation, skipping balance check" }`
SkipsBalancePhase(stop) == stop

\* handleWordCheck: the derivation loop (`if (stopCurrentBatch) break` at the
\* top of every iteration; with the variations of the model the loop never
\* reaches its awaited progress edit), the dedup and the test of the stop flag
HandleWordCheckDerive ==
    \E o \in 1..Len(ops) :
    /\ Running(o)
    /\ AtWordCheckStart(ops[o])
    /\ LET allAddresses == IF stopCurrentBatch THEN <<>>
                           ELSE WordCheckAddresses(ops[o].words[1], settings[ops[o].chat])
       IN ops' = IF SkipsBalancePhase(stopCurrentBatch)
                 THEN [ops EXCEPT ![o].pc = "finish", ![o].addrs = allAddresses,
                                  ![o].broke = stopCurrentBatch]
                 ELSE [ops EXCEPT ![o].pc = "lookup", ![o].addrs = allAddresses,
                                  ![o].broke = stopCurrentBatch]
    /\ UNCHANGED <<pollVars, isShuttingDown, stopCurrentBatch, longRunning, wordCache,
                   settings, cacheGhost, trackHistory, oracleVars, session>>

\* handleWordCheck: "Check global cache first", then the checkBalances call
HandleWordCheckLookup ==
    \E o \in 1..Len(ops) :
    /\ Running(o)
    /\ ops[o].h \in {"word", "deep"} /\ ops[o].pc = "lookup"
    /\ LET lk == CacheLookup(wordCache, ops[o].words[1])
       IN ops' = IF SkipOnCache(lk)
                 THEN [ops EXCEPT ![o].lookups = <<lk>>, ![o].hist = TRUE,
                                  ![o].pc = "finish"]
                 ELSE [ops EXCEPT ![o].lookups = <<lk>>, ![o].kept = <<1>>,
                                  ![o].i = 1, ![o].qd = {1},
                                  ![o].stopAtCall = stopCurrentBatch,
                                  ![o].pc = "query"]
    /\ UNCHANGED <<pollVars, isShuttingDown, stopCurrentBatch, longRunning, wordCache,
                   settings, cacheGhost, trackHistory, oracleVars, session>>

\* handleWordCheck: checkBalances returns or throws; "Cache the result globally"
HandleWordCheckResult ==
    \E o \in 1..Len(ops) :
    /\ Running(o)
    /\ ops[o].h \in {"word", "deep"} /\ ops[o].pc = "query"
    /\ \E out \in CheckBalancesOutcomes(Len(Capped(ops[o].addrs, ADDRESS_CAP)),
                                         ops[o].stopAtCall) :
          /\ ops' = [ops EXCEPT ![o].found = out.pos, ![o].pc = "finish",
                                ![o].hist = WritesBackAfter(out),
                                ![o].wr = IF WritesBackAfter(out) THEN {1} ELSE {}]
          /\ wordCache' = IF WritesBackAfter(out)
                          THEN CacheWordResult(wordCache, ops[o].words[1], out.pos,
                                               IF out.pos THEN 1 ELSE 0, Len(ops[o].addrs))
                          ELSE wordCache
          /\ cacheGhost' = IF WritesBackAfter(out)
                           THEN RecordHistory(cacheGhost, ops[o].words[1],
                                              Complete(ops[o].addrs, ADDRESS_CAP, out),
                                              Covered(ops[o].addrs, ADDRESS_CAP, out))
                           ELSE cacheGhost
    /\ UNCHANGED <<pollVars, isShuttingDown, stopCurrentBatch, longRunning, settings,
                   trackHistory, oracleVars, session>>

\* handleWordCheck returns (result message sent); handleDeepCheck restores var_depth
HandleWordCheckFinish ==
    \E o \in 1..Len(ops) :
    /\ Running(o)
    /\ ops[o].h \in {"word", "deep"} /\ ops[o].pc = "finish"
    /\ settings' = IF ops[o].h = "deep"
                   THEN [settings EXCEPT ![ops[o].chat].var_depth = ops[o].oldDepth]
                   ELSE settings
    /\ Settle(o)
    /\ UNCHANGED <<inbox, lastUpdateId, batchEnd, isPolling, isShuttingDown, wordCache,
                   cacheGhost, trackHistory, oracleVars, session>>

(* ------- list handlers: handleBatch, handleTopicExplore, handleAITopicExpand ------- *)
ListHandlers == {"batch", "topic", "aitopic"}

\* `if (data.balance > 0) { hasBalance = true; foundAny = true; }`: the two topic
\* handlers keep foundAny, handleBatch has no such variable
SetsFoundAny(h, foundAny, pos) == IF h \in {"topic", "aitopic"} THEN foundAny \/ pos ELSE foundAny

\* indices of s, ascending, that satisfy Keep
RECURSIVE KeptFrom(_, _)
KeptFrom(lks, j) ==
    IF j > Len(lks) THEN <<>>
    ELSE IF SkipOnCache(lks[j]) THEN KeptFrom(lks, j + 1)
         ELSE <<j>> \o KeptFrom(lks, j + 1)

\* "Filter out globally cached words": the pre-filter loop over the word list
ListPrefilter ==
    \E o \in 1..Len(ops) :
    /\ Running(o)
    /\ ops[o].h \in ListHandlers /\ ops[o].pc = "start"
    /\ LET lks == [j \in 1..Len(ops[o].words) |-> CacheLookup(wordCache, ops[o].words[j])]
           kept == KeptFrom(lks, 1)
       IN ops' = [ops EXCEPT ![o].lookups = lks, ![o].kept = kept, ![o].i = 1,
                             ![o].pc = IF kept = <<>> THEN "allcached" ELSE "loop"]
    /\ UNCHANGED <<pollVars, isShuttingDown, stopCurrentBatch, longRunning, wordCache,
                   settings, cacheGhost, trackHistory, oracleVars, session>>

\* every word was cached: handleTopicExplore (and handleBatch with a detected topic)
\* returns handleAITopicExpand(...), which filters a fresh AI word list
ListAllCachedExpand ==
    \E o \in 1..Len(ops) :
    /\ Running(o)
    /\ ops[o].h \in {"batch", "topic"} /\ ops[o].pc = "allcached"
    /\ \E ws \in WordLists :
          ops' = [ops EXCEPT ![o] = [NewOp("aitopic", ops[o].mode, ops[o].chat, ws)
                                         EXCEPT !.born = ops[o].born,
                                                !.stopFrom = ops[o].stopFrom]]
    /\ UNCHANGED <<pollVars, isShuttingDown, stopCurrentBatch, longRunning, wordCache,
                   settings, cacheGhost, trackHistory, oracleVars, session>>

\* every word was cached: "all already covered" message, return
ListAllCachedReturn ==
    \E o \in 1..Len(ops) :
    /\ Running(o)
    /\ ops[o].h \in {"batch", "aitopic"} /\ ops[o].pc = "allcached"
    /\ ops' = [ops EXCEPT ![o].pc = "finish"]
    /\ UNCHANGED <<pollVars, isShuttingDown, stopCurrentBatch, longRunning, wordCache,
                   settings, cacheGhost, trackHistory, oracleVars, session>>

\* top of the check loop: `if (stopCurrentBatch) break`, fullWordCheck, progress edit
ListLoopHead ==
    \E o \in 1..Len(ops) :
    /\ Running(o)
    /\ ops[o].h \in ListHandlers /\ ops[o].pc = "loop"
    /\ ops' = IF ops[o].i > Len(ops[o].kept)
              THEN [ops EXCEPT ![o].pc = "finish"]
              ELSE IF stopCurrentBatch
              THEN [ops EXCEPT ![o].pc = "finish", ![o].broke = TRUE]
              ELSE [ops EXCEPT ![o].pc = "call", ![o].found = FALSE,
                               ![o].addrs = FullWordCheck(
                                   ops[o].words[ops[o].kept[ops[o].i]],
                                   settings[ops[o].chat])]
    /\ UNCHANGED <<pollVars, isShuttingDown, stopCurrentBatch, longRunning, wordCache,
                   settings, cacheGhost, trackHistory, oracleVars, session>>

\* balanceChecker.checkBalances(fullResult.allAddresses, api, 50, () => stopCurrentBatch, ...)
ListCall ==
    \E o \in 1..Len(ops) :
    /\ Running(o)
    /\ ops[o].h \in ListHandlers /\ ops[o].pc = "call"
    /\ ops' = [ops EXCEPT ![o].qd = @ \cup {ops[o].kept[ops[o].i]},
                          ![o].stopAtCall = stopCurrentBatch,
                          ![o].pc = "query"]
    /\ UNCHANGED <<pollVars, isShuttingDown, stopCurrentBatch, longRunning, wordCache,
                   settings, cacheGhost, trackHistory, oracleVars, session>>

\* checkBalances returns or throws (catch: continue); then
\* session.cacheWordResult(word, hasBalance, 0, addressCount) and the next iteration
ListResult ==
    \E o \in 1..Len(ops) :
    /\ Running(o)
    /\ ops[o].h \in ListHandlers /\ ops[o].pc = "query"
    /\ \E out \in CheckBalancesOutcomes(Len(Capped(ops[o].addrs, ADDRESS_CAP)),
                                         ops[o].stopAtCall) :
          LET word == ops[o].words[ops[o].kept[ops[o].i]]
          IN /\ wordCache' = IF WritesBackAfter(out)
                             THEN CacheWordResult(wordCache, word, out.pos, 0,
                                                  Len(ops[o].addrs))
                             ELSE wordCache
             /\ cacheGhost' = IF WritesBackAfter(out)
                              THEN RecordHistory(cacheGhost, word,
                                                 Complete(ops[o].addrs, ADDRESS_CAP, out),
                                                 Covered(ops[o].addrs, ADDRESS_CAP, out))
                              ELSE cacheGhost
             /\ ops' = [ops EXCEPT ![o].wr = IF WritesBackAfter(out)
                                             THEN @ \cup {ops[o].kept[ops[o].i]} ELSE @,
                                   ![o].i = @ + 1, ![o].pc = "loop",
                                   ![o].addrs = <<>>, ![o].stopAtCall = FALSE,
                                   ![o].foundAny = SetsFoundAny(ops[o].h, @, out.pos)]
    /\ UNCHANGED <<pollVars, isShuttingDown, stopCurrentBatch, longRunning, settings,
                   trackHistory, oracleVars, session>>

\* summary message sent, the handler returns
ListFinish ==
    \E o \in 1..Len(ops) :
    /\ Running(o)
    /\ ops[o].h \in ListHandlers /\ ops[o].pc = "finish"
    /\ Settle(o)
    /\ UNCHANGED <<inbox, lastUpdateId, batchEnd, isPolling, isShuttingDown, wordCache,
                   settings, cacheGhost, trackHistory, oracleVars, session>>

(* --------------------------- handleDictionary -------------------------- *)
\* from the top of iteration j up to the next await: stop test, cache lookup,
\* `continue` on a skip, else the first hasAnyBalance call for the word
RECURSIVE DictAdvance(_, _, _, _)
DictAdvance(op, cache, stop, j) ==
    IF j > Len(op.words) THEN [op EXCEPT !.pc = "finish", !.i = j]
    ELSE IF stop THEN [op EXCEPT !.pc = "finish", !.i = j, !.broke = TRUE]
    ELSE LET lk == CacheLookup(cache, op.words[j])
             op1 == [op EXCEPT !.lookups[j] = lk]
         IN IF SkipOnCache(lk)
            THEN DictAdvance(op1, cache, stop, j + 1)
            ELSE [op1 EXCEPT !.i = j, !.rep = 1, !.kept = Append(@, j),
                             !.qd = @ \cup {j},
                             !.addrs = DictionaryAddresses(op.words[j], Repeats[1]),
                             !.wcomplete = TRUE, !.wcovered = {},
                             !.pc = "query"]

\* does handleDictionary write the "not found" record after the repeat loop
DictWritesNotFound(lk) == lk = "none"

\* after one repeat's try block: next repeat, or `if (!cached) cacheWordResult(word,
\* false, 0, 0)` and on to the next word
DictAfterRepeat(op, cache, ghost, stop) ==
    IF op.rep < Len(Repeats)
    THEN [op |-> [op EXCEPT !.rep = @ + 1,
                            !.addrs = DictionaryAddresses(op.words[op.i], Repeats[op.rep + 1]),
                            !.pc = "query"],
          cache |-> cache, ghost |-> ghost]
    ELSE LET word == op.words[op.i]
             w == DictWritesNotFound(op.lookups[op.i])
             cache1 == IF w THEN CacheWordResult(cache, word, FALSE, 0, 0) ELSE cache
             ghost1 == IF w THEN RecordHistory(ghost, word, op.wcomplete, op.wcovered)
                       ELSE ghost
             op1 == IF w THEN [op EXCEPT !.wr = @ \cup {op.i}] ELSE op
         IN [op |-> DictAdvance(op1, cache1, stop, op.i + 1),
             cache |-> cache1, ghost |-> ghost1]

\* handleDictionary after its first message: enter the loop
HandleDictionaryStart ==
    \E o \in 1..Len(ops) :
    /\ Running(o)
    /\ ops[o].h = "dict" /\ ops[o].pc = "start"
    /\ ops' = [ops EXCEPT ![o] = DictAdvance(ops[o], wordCache, stopCurrentBatch, 1)]
    /\ UNCHANGED <<pollVars, isShuttingDown, stopCurrentBatch, longRunning, wordCache,
                   settings, cacheGhost, trackHistory, oracleVars, session>>

\* balanceChecker.hasAnyBalance(addrs, api) returns or throws
HandleDictionaryResult ==
    \E o \in 1..Len(ops) :
    /\ Running(o)
    /\ ops[o].h = "dict" /\ ops[o].pc = "query"
    /\ \E out \in HasAnyBalanceOutcomes(Len(ops[o].addrs)) :
          LET op1 == [ops[o] EXCEPT
                         !.wcomplete = @ /\ (trackHistory =>
                                              Complete(ops[o].addrs, Len(ops[o].addrs), out)),
                         !.wcovered = IF trackHistory
                                      THEN @ \cup Covered(ops[o].addrs, Len(ops[o].addrs), out)
                                      ELSE @]
              word == ops[o].words[ops[o].i]
          IN IF out.pos
             THEN /\ wordCache' = CacheWordResult(wordCache, word, TRUE, 0, Len(ops[o].addrs))
                  /\ cacheGhost' = RecordHistory(cacheGhost, word, op1.wcomplete,
                                                  op1.wcovered)
                  /\ ops' = [ops EXCEPT ![o] = [op1 EXCEPT !.found = TRUE,
                                                           !.wr = @ \cup {ops[o].i},
                                                           !.pc = "notify"]]
             ELSE LET r == DictAfterRepeat(op1, wordCache, cacheGhost, stopCurrentBatch)
                  IN /\ wordCache' = r.cache
                     /\ cacheGhost' = r.ghost
                     /\ ops' = [ops EXCEPT ![o] = r.op]
    /\ UNCHANGED <<pollVars, isShuttingDown, stopCurrentBatch, longRunning, settings,
                   trackHistory, oracleVars, session>>

\* `await notifyAdmin(...)` after a hit returns: rest of the iteration
HandleDictionaryNotified ==
    \E o \in 1..Len(ops) :
    /\ Running(o)
    /\ ops[o].h = "dict" /\ ops[o].pc = "notify"
    /\ LET r == DictAfterRepeat(ops[o], wordCache, cacheGhost, stopCurrentBatch)
       IN /\ wordCache' = r.cache
          /\ cacheGhost' = r.ghost
          /\ ops' = [ops EXCEPT ![o] = r.op]
    /\ UNCHANGED <<pollVars, isShuttingDown, stopCurrentBatch, longRunning, settings,
                   trackHistory, oracleVars, session>>

HandleDictionaryFinish ==
    \E o \in 1..Len(ops) :
    /\ Running(o)
    /\ ops[o].h = "dict" /\ ops[o].pc = "finish"
    /\ Settle(o)
    /\ UNCHANGED <<inbox, lastUpdateId, batchEnd, isPolling, isShuttingDown, wordCache,
                   settings, cacheGhost, trackHistory, oracleVars, session>>

(* ------- handlers that query without the cache: brain, lucky, keyhunt ------- *)
\* handleRandomKeyHunt's generation loop: a rejected draw is caught and skipped
KeyData(draws) == SelectSeq([j \in 1..Len(draws) |-> <<draws[j][1], j>>],
                            LAMBDA d : d[1] = "key")

\* addresses handleRandomKeyHunt collects: legacy and native segwit of every key
RandomKeyAddresses(keyData) ==
    Flatten([j \in 1..Len(keyData) |-> << <<"rand", keyData[j][2], "legacy">>,
                                           <<"rand", keyData[j][2], "native">> >>])

\* handleBrainWallet's balanceText: one "0 BTC" line per answered address, or
\* "Balance check failed" when checkBalances threw
BalanceLines(out) == IF out.threw THEN -1 ELSE out.k

\* handleBrainWallet / handleRandomKeyHunt: derive, then one checkBalances call
\* (shouldStop is () => stopCurrentBatch for brain, () => false for the key hunt)
SingleCall ==
    \E o \in 1..Len(ops) :
    /\ Running(o)
    /\ ops[o].h \in {"brain", "keyhunt"} /\ ops[o].pc = "start"
    /\ ops' = [ops EXCEPT ![o].addrs = IF ops[o].h = "brain"
                                       THEN BrainWalletAddresses(ops[o].words[1])
                                       ELSE RandomKeyAddresses(KeyData(ops[o].words)),
                          ![o].i = 1, ![o].kept = <<1>>, ![o].qd = {1},
                          ![o].stopAtCall = ops[o].h = "brain" /\ stopCurrentBatch,
                          ![o].pc = "query"]
    /\ UNCHANGED <<pollVars, isShuttingDown, stopCurrentBatch, longRunning, wordCache,
                   settings, cacheGhost, trackHistory, oracleVars, session>>

SingleResult ==
    \E o \in 1..Len(ops) :
    /\ Running(o)
    /\ ops[o].h \in {"brain", "keyhunt"} /\ ops[o].pc = "query"
    /\ \E out \in CheckBalancesOutcomes(Len(ops[o].addrs), ops[o].stopAtCall) :
          ops' = [ops EXCEPT ![o].found = out.pos, ![o].pc = "finish",
                             ![o].answered = IF ops[o].h = "brain"
                                             THEN BalanceLines(out) ELSE @]
    /\ UNCHANGED <<pollVars, isShuttingDown, stopCurrentBatch, longRunning, wordCache,
                   settings, cacheGhost, trackHistory, oracleVars, session>>

\* handleFeelingLucky: top of the loop, brain-wallet derivation and checkBalances call
HandleFeelingLuckyLoop ==
    \E o \in 1..Len(ops) :
    /\ Running(o)
    /\ ops[o].h = "lucky" /\ ops[o].pc \in {"start", "loop"}
    /\ LET j == ops[o].i + 1
       IN ops' = IF j > Len(ops[o].words)
                 THEN [ops EXCEPT ![o].pc = "finish"]
                 ELSE IF stopCurrentBatch
                 THEN [ops EXCEPT ![o].pc = "finish", ![o].broke = TRUE]
                 ELSE [ops EXCEPT ![o].i = j, ![o].kept = Append(@, j),
                                  ![o].qd = @ \cup {j},
                                  ![o].addrs = BrainWalletAddresses(ops[o].words[j]),
                                  ![o].stopAtCall = FALSE,
                                  ![o].pc = "query"]
    /\ UNCHANGED <<pollVars, isShuttingDown, stopCurrentBatch, longRunning, wordCache,
                   settings, cacheGhost, trackHistory, oracleVars, session>>

HandleFeelingLuckyResult ==
    \E o \in 1..Len(ops) :
    /\ Running(o)
    /\ ops[o].h = "lucky" /\ ops[o].pc = "query"
    /\ \E out \in CheckBalancesOutcomes(Len(ops[o].addrs), ops[o].stopAtCall) :
          ops' = [ops EXCEPT ![o].found = out.pos, ![o].pc = "loop", ![o].addrs = <<>>]
    /\ UNCHANGED <<pollVars, isShuttingDown, stopCurrentBatch, longRunning, wordCache,
                   settings, cacheGhost, trackHistory, oracleVars, session>>

\* result message sent, the handler returns
SimpleFinish ==
    \E o \in 1..Len(ops) :
    /\ Running(o)
    /\ ops[o].h \in {"brain", "keyhunt", "lucky"} /\ ops[o].pc = "finish"
    /\ Settle(o)
    /\ UNCHANGED <<inbox, lastUpdateId, batchEnd, isPolling, isShuttingDown, wordCache,
                   settings, cacheGhost, trackHistory, oracleVars, session>>

(* ------------------------- a handler that throws ------------------------ *)
\* where a handler awaits its first status message, a Telegram send that no
\* try/catch and no .catch() guards ("wstart": the one of handleWordCheck
\* inside handleDeepCheck)
RejectPoints == {"start", "wstart"}

\* the handler's promise rejects and the rejection is absorbed: runLongOp's
\* catch and finally for a long operation; for an awaited one the catch of
\* handleMessage / handleCallback reports the error and the handler returns
HandlerRejects ==
    \E o \in 1..Len(ops) :
    /\ Running(o)
    /\ ops[o].pc \in RejectPoints
    /\ Settle(o)
    /\ UNCHANGED <<inbox, lastUpdateId, batchEnd, isPolling, isShuttingDown, wordCache,
                   settings, cacheGhost, trackHistory, oracleVars, session>>

HandlerRejectsTwice_NoFinally ==
    \E o \in 1..Len(ops) :
    /\ Running(o)
    /\ ops[o].mode = "inline" /\ ops[o].pc \in RejectPoints
    /\ ops' = RemoveOp(o)
    /\ pollPc' = "idle"
    /\ UNCHANGED <<inbox, lastUpdateId, batchEnd, isPolling, isShuttingDown,
                   stopCurrentBatch, longRunning, wordCache, settings, cacheGhost,
                   trackHistory, oracleVars, session>>

HandlerRejectsTwice_SkipsBatch ==
    \E o \in 1..Len(ops) :
    /\ Running(o)
    /\ ops[o].mode = "inline" /\ ops[o].pc \in RejectPoints
    /\ ops' = RemoveOp(o)
    /\ pollPc' = "idle"
    /\ isPolling' = FALSE
    /\ lastUpdateId' = batchEnd
    /\ UNCHANGED <<inbox, batchEnd, isShuttingDown, stopCurrentBatch,
                   longRunning, wordCache, settings, cacheGhost, trackHistory,
                   oracleVars, session>>

\* the error report of handleMessage / handleCallback fails as well: the
\* rejection reaches pollUpdates, whose catch logs it and whose finally runs
HandlerRejectsTwice ==
    \E o \in 1..Len(ops) :
    /\ Running(o)
    /\ ops[o].mode = "inline" /\ ops[o].pc \in RejectPoints
    /\ ops' = RemoveOp(o)
    /\ pollPc' = "idle"
    /\ isPolling' = FALSE
    /\ UNCHANGED <<inbox, lastUpdateId, batchEnd, isShuttingDown, stopCurrentBatch,
                   longRunning, wordCache, settings, cacheGhost, trackHistory,
                   oracleVars, session>>

(* ---------------------------- specification ---------------------------- *)
Next ==
    \/ UserSends
    \/ PollStart
    \/ GetUpdatesReturns
    \/ GetUpdatesThrows
    \/ DispatchStop
    \/ DispatchRejected
    \/ DispatchCheck
    \/ DispatchQuick
    \/ DispatchStopCommand
    \/ PollEnd
    \/ Shutdown
    \/ HandleDeepCheckStart
    \/ HandleWordCheckDerive
    \/ HandleWordCheckLookup
    \/ HandleWordCheckResult
    \/ HandleWordCheckFinish
    \/ ListPrefilter
    \/ ListAllCachedExpand
    \/ ListAllCachedReturn
    \/ ListLoopHead
    \/ ListCall
    \/ ListResult
    \/ ListFinish
    \/ HandleDictionaryStart
    \/ HandleDictionaryResult
    \/ HandleDictionaryNotified
    \/ HandleDictionaryFinish
    \/ SingleCall
    \/ SingleResult
    \/ HandleFeelingLuckyLoop
    \/ HandleFeelingLuckyResult
    \/ SimpleFinish

Spec == Init /\ [][Next]_vars

\* the same program when a Telegram send that nothing guards can fail
NextThrows ==
    \/ Next
    \/ HandlerRejects
    \/ HandlerRejectsTwice

SpecThrows == Init /\ [][NextThrows]_vars

\* the same program, with the history of every cache record kept
InitHistory ==
    /\ inbox = <<>>
    /\ lastUpdateId = 0
    /\ batchEnd = 0
    /\ pollPc = "idle"
    /\ isPolling = FALSE
    /\ isShuttingDown = FALSE
    /\ stopCurrentBatch = FALSE
    /\ longRunning = FALSE
    /\ ops = <<>>
    /\ wordCache = EmptyCache
    /\ settings = InitSettings
    /\ cacheGhost = [k \in Keys |-> NoGhost]
    /\ trackHistory = TRUE
    /\ health = InitHealth
    /\ call = IdleCall
    /\ session = InitSession

SpecHistory == InitHistory /\ [][Next]_vars

(* ===================== balance oracle (lib/balance-checker) ============= *)
\* The oracle's code is outside src/; it is modelled from the specification
\* (sections 4.2, 5, 7 and 9). The bot's variables other than stopCurrentBatch,
\* which handlers pass as shouldStop, do not change in this specification.
botVars == <<inbox, lastUpdateId, batchEnd, pollPc, isPolling, isShuttingDown,
             longRunning, ops, wordCache, settings, cacheGhost, trackHistory, session>>

OracleAddresses == 1..MaxOracleAddrs

\* address lists handed to the oracle, duplicates included (one entry more than
\* there are addresses, so that a repeated address can precede the cut);
\* addresses are opaque strings, so of the lists that differ only by renaming
\* one is kept (a new address is always the next unused one)
OracleInputs ==
    {s \in UNION {[1..n -> OracleAddresses] : n \in 0..(MaxOracleAddrs + 1)} :
        \A i \in 1..Len(s) : \A a \in 1..(s[i] - 1) : \E j \in 1..(i - 1) : s[j] = a}

\* the addresses a call on input with cap maxAddresses works on: the input
\* deduplicated, then cut to its first maxAddresses addresses
CappedInput_Uncapped(input, maxAddresses) == Dedup(input)

CappedInput(input, maxAddresses) == Capped(Dedup(input), maxAddresses)

Balances == {0, 5}

\* providerPreference: auto, or one specific backend (the alternate provider)
Preferences == {"auto", Providers[Len(Providers)]}

FailureSignals == {"ratelimited", "unavailable"}

Bump(n) == Min(n + 1, MaxCount)

\* the value of shouldStop() for call c: handlers pass () => stopCurrentBatch to
\* checkBalances (handleRandomKeyHunt's () => false is the case of a flag that
\* is never set); hasAnyBalance is given no shouldStop
ShouldStop_Ignored(c) == FALSE

ShouldStop(c) == c.usesFlag /\ stopCurrentBatch

\* providers a query of call c may be sent to
Eligible_IgnoresCooldown(c) == {p \in ProviderSet : p \notin c.failed}

Eligible(c) == {p \in ProviderSet : ~health[p].cooling /\ p \notin c.failed}

Healthier(p, q) ==
    \/ health[p].failure < health[q].failure
    \/ health[p].failure = health[q].failure /\ RegistryIndex(p) <= RegistryIndex(q)

Healthiest(ps) == CHOOSE p \in ps : \A q \in ps : Healthier(p, q)

\* the provider the next query of call c goes to
NextHealthiest(c) ==
    IF c.pref \in Eligible(c) THEN c.pref ELSE Healthiest(Eligible(c))

\* the outstanding addresses after query q got a failure signal
Requeue_Dropped(c, q) == c.todo

Requeue(c, q) == c.todo \cup {q.addr}

\* the providers call c no longer falls back to after query q got a failure signal
FailedAfter_Forgotten(c, q) == c.failed

FailedAfter(c, q) == c.failed \cup {q.provider}

\* what checkBalances hands back when it stops before every address is answered
CheckBalancesResult_ThrowsWhenExhausted(c) ==
    IF c.todo # {} /\ ~c.stopSeen
    THEN [kind |-> "error", mapping |-> <<>>, any |-> FALSE]
    ELSE [kind |-> "value", mapping |-> c.results, any |-> FALSE]

CheckBalancesResult(c) == [kind |-> "value", mapping |-> c.results, any |-> FALSE]

\* hasAnyBalance stops at the first address that reports a positive balance
ShortCircuited_Never(c) == FALSE

ShortCircuited(c) ==
    c.op = "hasAnyBalance" /\ \E a \in DOMAIN c.results : c.results[a].balance > 0

\* the boolean hasAnyBalance hands back
HasAnyBalanceResult_AnyAnswer(c) ==
    [kind |-> "value", mapping |-> <<>>, any |-> DOMAIN c.results # {}]

HasAnyBalanceResult(c) ==
    [kind |-> "value", mapping |-> <<>>,
     any |-> \E a \in DOMAIN c.results : c.results[a].balance > 0]

FormatApiHealth ==
    [p \in ProviderSet |->
        IF health[p].cooling THEN "cooldown"
        ELSE IF health[p].failure > 0 THEN "degraded" ELSE "ok"]

\* a handler requests a stop while the oracle works (or before it is called)
StopRequested ==
    /\ ~stopCurrentBatch
    /\ stopCurrentBatch' = TRUE
    /\ UNCHANGED <<botVars, oracleVars>>

CheckBalancesCall ==
    /\ call.pc = "idle"
    /\ \E input \in OracleInputs, cap \in 1..MaxOracleAddrs, pref \in Preferences :
          call' = [IdleCall EXCEPT !.pc = "called", !.op = "checkBalances",
                                   !.input = input, !.cap = cap,
                                   !.pref = pref, !.usesFlag = TRUE]
    /\ UNCHANGED <<botVars, stopCurrentBatch, health>>

\* hasAnyBalance(addresses, providerPreference): no cap and no shouldStop
HasAnyBalanceCall ==
    /\ call.pc = "idle"
    /\ \E input \in OracleInputs, pref \in Preferences :
          call' = [IdleCall EXCEPT !.pc = "called", !.op = "hasAnyBalance",
                                   !.input = input, !.cap = Len(input),
                                   !.pref = pref]
    /\ UNCHANGED <<botVars, stopCurrentBatch, health>>

\* the call's first step: deduplicate the input and cut it to the cap; from here
\* on the call works on the addresses kept, the arguments are not read again
PrepareAddresses ==
    /\ call.pc = "called"
    /\ LET capped == ToSet(CappedInput(call.input, call.cap))
       IN  call' = [call EXCEPT !.pc = "running", !.input = <<>>, !.cap = 0,
                                !.capped = capped,
                                !.beyond = ToSet(call.input) \ capped,
                                !.todo = capped]
    /\ UNCHANGED <<botVars, stopCurrentBatch, health>>

\* shouldStop is polled before a provider call and returns true
PollShouldStop ==
    /\ call.pc = "running"
    /\ ~call.stopSeen
    /\ call.todo # {}
    /\ ShouldStop(call)
    /\ call' = [call EXCEPT !.stopSeen = TRUE]
    /\ UNCHANGED <<botVars, stopCurrentBatch, health>>

\* shouldStop is polled, returns false, and one more query is started
IssueQuery ==
    /\ call.pc = "running"
    /\ ~call.stopSeen
    /\ ~ShouldStop(call)
    /\ ~ShortCircuited(call)
    /\ call.todo # {}
    /\ Cardinality(call.inflight) < MaxInFlight
    /\ Eligible(call) # {}
    /\ \E a \in call.todo :
          call' = [call EXCEPT !.todo = @ \ {a},
                               !.inflight = @ \cup {[addr |-> a,
                                                     provider |-> NextHealthiest(call)]}]
    /\ UNCHANGED <<botVars, stopCurrentBatch, health>>

ProviderAnswers ==
    /\ call.pc = "running"
    /\ \E q \in call.inflight, b \in Balances :
          /\ call' = [call EXCEPT
                        !.inflight = @ \ {q},
                        !.results = (q.addr :> [balance |-> b, provider |-> q.provider]) @@ @,
                        !.answers = @ \cup {[addr |-> q.addr, provider |-> q.provider,
                                             balance |-> b]}]
          /\ health' = [health EXCEPT ![q.provider].success = Bump(@)]
    /\ UNCHANGED <<botVars, stopCurrentBatch>>

\* a rate-limit signal, or a transient error (a timeout included)
ProviderFails ==
    /\ call.pc = "running"
    /\ \E q \in call.inflight, sig \in FailureSignals :
          /\ call' = [call EXCEPT
                        !.inflight = @ \ {q},
                        !.todo = Requeue(call, q),
                        !.failed = FailedAfter(call, q)]
          /\ health' = [health EXCEPT ![q.provider].failure = Bump(@),
                                      ![q.provider].cooling = TRUE]
    /\ UNCHANGED <<botVars, stopCurrentBatch>>

CooldownExpires ==
    /\ \E p \in ProviderSet :
          /\ health[p].cooling
          /\ health' = [health EXCEPT ![p].cooling = FALSE]
    /\ UNCHANGED <<botVars, stopCurrentBatch, call>>

\* every address answered, cancellation observed, or every provider exhausted
CheckBalancesReturns ==
    /\ call.pc = "running"
    /\ call.op = "checkBalances"
    /\ call.inflight = {}
    /\ \/ call.todo = {}
       \/ call.stopSeen
       \/ Eligible(call) = {}
    /\ call' = [call EXCEPT !.pc = "returned", !.ret = CheckBalancesResult(call)]
    /\ UNCHANGED <<botVars, stopCurrentBatch, health>>

\* a positive answer, every address answered, or every provider exhausted
HasAnyBalanceReturns ==
    /\ call.pc = "running"
    /\ call.op = "hasAnyBalance"
    /\ call.inflight = {}
    /\ \/ call.todo = {}
       \/ ShortCircuited(call)
       \/ Eligible(call) = {}
    /\ call' = [call EXCEPT !.pc = "returned", !.ret = HasAnyBalanceResult(call)]
    /\ UNCHANGED <<botVars, stopCurrentBatch, health>>

\* the handler takes the result; when it settles runLongOp clears the flag
CallerResumes ==
    /\ call.pc = "returned"
    /\ call' = IdleCall
    /\ stopCurrentBatch' = FALSE
    /\ UNCHANGED <<botVars, health>>

NextOracle ==
    \/ StopRequested
    \/ CheckBalancesCall
    \/ HasAnyBalanceCall
    \/ PrepareAddresses
    \/ PollShouldStop
    \/ IssueQuery
    \/ ProviderAnswers
    \/ ProviderFails
    \/ CooldownExpires
    \/ CheckBalancesReturns
    \/ HasAnyBalanceReturns
    \/ CallerResumes

SpecOracle == Init /\ [][NextOracle]_vars

\* every query carries a timeout, so a query in flight gets an answer or a
\* failure signal; the oracle's own steps (prepare, poll shouldStop, start a
\* query, return) run whenever they can
ProviderResponds == ProviderAnswers \/ ProviderFails

OracleProceeds ==
    PrepareAddresses \/ PollShouldStop \/ IssueQuery \/ CheckBalancesReturns \/ HasAnyBalanceReturns

\* a call in progress is not left waiting forever: the event loop runs the next
\* step of the call, a provider's response or the oracle's own continuation
CallStep == ProviderResponds \/ OracleProceeds

SpecOracleFair == SpecOracle /\ WF_vars(CallStep)

(* ================= word cache and its store (lib/session) ============== *)
\* The session module's code is outside src/; the cache operations and the
\* store are modelled from the specification (sections 3, 4.3 and 6). When they
\* run is the bot's code: loadSessions at start, saveSessions on the 5-minute
\* timer and in shutdown(), cacheWordResult / getCachedWordResult in handlers.
CacheArgs ==
    {[present |-> TRUE, hasBalance |-> FALSE, balance |-> 0, addressCount |-> 1],
     [present |-> TRUE, hasBalance |-> FALSE, balance |-> 0, addressCount |-> 2],
     [present |-> TRUE, hasBalance |-> TRUE, balance |-> 5, addressCount |-> 1]}

\* a handler records the outcome of a check
CacheWordResultCall ==
    /\ session.up
    /\ \E p \in CachePhrases, r \in CacheArgs :
          /\ wordCache' = CacheWordResult(wordCache, p, r.hasBalance, r.balance, r.addressCount)
          /\ session' = [session EXCEPT !.last = [seq |-> 1 - session.last.seq, op |-> "cache",
                                                  phrase |-> p, rec |-> r,
                                                  had |-> GetCachedWordResult(wordCache, p),
                                                  result |-> NoRecord, after |-> <<>>]]
    /\ UNCHANGED <<inbox, lastUpdateId, batchEnd, pollPc, isPolling, isShuttingDown,
                   stopCurrentBatch, longRunning, ops, settings, cacheGhost, trackHistory, oracleVars>>

\* a handler looks a phrase up
GetCachedWordResultCall ==
    /\ session.up
    /\ \E p \in CachePhrases :
          session' = [session EXCEPT !.last = [seq |-> 1 - session.last.seq, op |-> "get",
                                               phrase |-> p, rec |-> NoRecord,
                                               had |-> NoRecord,
                                               result |-> GetCachedWordResult(wordCache, p),
                                               after |-> IF session.last.op = "cache"
                                                         THEN session.last.phrase
                                                         ELSE <<>>]]
    /\ UNCHANGED <<inbox, lastUpdateId, batchEnd, pollPc, isPolling, isShuttingDown,
                   stopCurrentBatch, longRunning, ops, wordCache, settings, cacheGhost,
                   trackHistory, oracleVars>>

\* setInterval(() => { session.saveSessions(); }, 300000)
SaveSessionsTimer ==
    /\ session.up
    /\ session' = [session EXCEPT !.disk = SaveSessions(wordCache),
                                  !.flushed = RecordsOf(wordCache)]
    /\ UNCHANGED <<inbox, lastUpdateId, batchEnd, pollPc, isPolling, isShuttingDown,
                   stopCurrentBatch, longRunning, ops, wordCache, settings, cacheGhost,
                   trackHistory, oracleVars>>

\* the process dies without running shutdown(): nothing is saved
Crash ==
    /\ session.up
    /\ session' = [session EXCEPT !.up = FALSE, !.crashed = TRUE,
                                  !.sizeAtStop = GetWordCacheSize(wordCache)]
    /\ ops' = <<>>
    /\ pollPc' = "idle"
    /\ isPolling' = FALSE
    /\ longRunning' = FALSE
    /\ UNCHANGED <<inbox, lastUpdateId, batchEnd, isShuttingDown, stopCurrentBatch,
                   wordCache, settings, cacheGhost, trackHistory, oracleVars>>

\* the next start: session.loadSessions(), then the module's variables
Start_WithoutLoad(disk) == EmptyCache

Started(disk) == LoadSessions(disk)

Start ==
    /\ ~session.up
    /\ wordCache' = Started(session.disk)
    /\ lastUpdateId' = 0
    /\ isPolling' = FALSE
    /\ isShuttingDown' = FALSE
    /\ stopCurrentBatch' = FALSE
    /\ session' = [session EXCEPT !.up = TRUE, !.last = NoCacheCall]
    /\ UNCHANGED <<inbox, batchEnd, pollPc, longRunning, ops, settings, cacheGhost,
                   trackHistory, oracleVars>>

NextSession ==
    \/ CacheWordResultCall
    \/ GetCachedWordResultCall
    \/ SaveSessionsTimer
    \/ Shutdown
    \/ Crash
    \/ Start

SpecSession == Init /\ [][NextSession]_vars

(* ===================== the API-key prompts (src/bot.js) ================= *)
\* How handleMessage and handleCallback route the updates of a chat through the
\* session states 'awaiting_explorer_key' and 'awaiting_fb_key'. One action is
\* one update handled to the end; the word check a text starts is an operation
\* that ends in a later step. The interview mode is left out.

\* texts a user sends, already trimmed by pollUpdates: a command, a text too
\* short to be a key, a text long enough to be one
Texts == {<<"/", "h", "e", "l", "p">>, <<"a", "b">>, <<"s", "e", "c", "r", "e", "t">>}

\* text.startsWith('/')
StartsWithSlash(t) == Len(t) > 0 /\ t[1] = "/"

\* `if (key.length < 5)`: "Key too short. Cancelled."
KeyTooShort(key) == Len(key) < 5

\* the session object of chat c after an update of the given kind was handled
SessionAfter(c, sess, kind) ==
    [session EXCEPT !.sessions[c] = sess, !.handled[c] = kind]

\* an update reaches its handler: the process is up and the gate is open
Handles == session.up /\ ~isShuttingDown /\ ~LongRunningGate

\* callback explorer_key:<explorer>: prompt for the key, or clear:<explorer>
HandleExplorerKey ==
    /\ Handles
    /\ \E c \in Chats, e \in Explorers, clear \in BOOLEAN :
          IF clear
          THEN /\ settings' = [settings EXCEPT ![c].explorer_keys[e] = <<>>]
               /\ session' = SessionAfter(c, session.sessions[c], "callback")
          ELSE /\ session' = SessionAfter(c, [session.sessions[c] EXCEPT
                                                 !.state = "awaiting_explorer_key",
                                                 !.pendingExplorer = e], "prompt")
               /\ UNCHANGED settings
    /\ UNCHANGED <<inbox, lastUpdateId, batchEnd, pollPc, isPolling, isShuttingDown,
                   stopCurrentBatch, longRunning, ops, wordCache, cacheGhost,
                   trackHistory, oracleVars>>

\* callback ai_fb_add:<provider> for a provider that needs a key: the provider
\* is kept pending and its key is asked for (Ollama, added without a prompt, is
\* left out)
HandleAIFallbackAdd ==
    /\ Handles
    /\ \E c \in Chats, provider \in FbProviders :
          session' = SessionAfter(c, [session.sessions[c] EXCEPT
                                         !.state = "awaiting_fb_key",
                                         !.pendingFbProvider = provider], "prompt")
    /\ UNCHANGED <<inbox, lastUpdateId, batchEnd, pollPc, isPolling, isShuttingDown,
                   stopCurrentBatch, longRunning, ops, wordCache, settings, cacheGhost,
                   trackHistory, oracleVars>>

\* the Cancel button of either prompt: callbacks settings:explorer and
\* settings:ai, which handleCallback gives to cmdSettings
CancelPrompt ==
    /\ Handles
    /\ \E c \in Chats : session' = SessionAfter(c, session.sessions[c], "cancel")
    /\ UNCHANGED <<inbox, lastUpdateId, batchEnd, pollPc, isPolling, isShuttingDown,
                   stopCurrentBatch, longRunning, ops, wordCache, settings, cacheGhost,
                   trackHistory, oracleVars>>

\* any other callback with a short handler (menu, status, history ...)
OtherCallback ==
    /\ Handles
    /\ \E c \in Chats : session' = SessionAfter(c, session.sessions[c], "callback")
    /\ UNCHANGED <<inbox, lastUpdateId, batchEnd, pollPc, isPolling, isShuttingDown,
                   stopCurrentBatch, longRunning, ops, wordCache, settings, cacheGhost,
                   trackHistory, oracleVars>>

\* handleMessage on a text that starts with '/': both key branches are passed
\* over and handleCommand answers (/help, /menu, /status ...)
CommandMessage ==
    /\ Handles
    /\ \E c \in Chats, t \in Texts :
          /\ StartsWithSlash(t)
          /\ session' = SessionAfter(c, session.sessions[c], "command")
    /\ UNCHANGED <<inbox, lastUpdateId, batchEnd, pollPc, isPolling, isShuttingDown,
                   stopCurrentBatch, longRunning, ops, wordCache, settings, cacheGhost,
                   trackHistory, oracleVars>>

\* handleMessage on any other text while the chat awaits an explorer key
ExplorerKeyMessage ==
    /\ Handles
    /\ \E c \in Chats, t \in Texts, ok \in BOOLEAN :
          /\ ~StartsWithSlash(t)
          /\ session.sessions[c].state = "awaiting_explorer_key"
          /\ session' = SessionAfter(c, [session.sessions[c] EXCEPT
                                            !.state = "idle",
                                            !.pendingExplorer = "null"], "text")
          /\ settings' = IF KeyTooShort(t) \/ ~ok THEN settings
                         ELSE [settings EXCEPT
                                  ![c].explorer_keys[session.sessions[c].pendingExplorer] = t]
    /\ UNCHANGED <<inbox, lastUpdateId, batchEnd, pollPc, isPolling, isShuttingDown,
                   stopCurrentBatch, longRunning, ops, wordCache, cacheGhost,
                   trackHistory, oracleVars>>

\* handleMessage on any other text while the chat awaits a fallback key
FallbackKeyMessage ==
    /\ Handles
    /\ \E c \in Chats, t \in Texts, ok \in BOOLEAN :
          /\ ~StartsWithSlash(t)
          /\ session.sessions[c].state = "awaiting_fb_key"
          /\ session' = SessionAfter(c, [session.sessions[c] EXCEPT
                                            !.state = "idle",
                                            !.pendingFbProvider = "null"], "text")
          /\ settings' = IF KeyTooShort(t) \/ ~ok THEN settings
                         ELSE [settings EXCEPT
                                  ![c].fallbacks =
                                      @ \cup {<<session.sessions[c].pendingFbProvider, t>>}]
    /\ UNCHANGED <<inbox, lastUpdateId, batchEnd, pollPc, isPolling, isShuttingDown,
                   stopCurrentBatch, longRunning, ops, wordCache, cacheGhost,
                   trackHistory, oracleVars>>

\* handleMessage on any other text otherwise: runLongOp(handleWordCheck), which
\* sets sess.state = 'checking' before its first await
WordMessage ==
    /\ Handles
    /\ \E c \in Chats, t \in Texts :
          /\ ~StartsWithSlash(t)
          /\ session.sessions[c].state \notin {"awaiting_explorer_key", "awaiting_fb_key"}
          /\ session' = SessionAfter(c, [session.sessions[c] EXCEPT !.state = "checking"],
                                     "text")
          /\ stopCurrentBatch' = FALSE
          /\ longRunning' = TRUE
          /\ ops' = Append(ops, NewOp("word", "long", c, <<t>>))
    /\ UNCHANGED <<inbox, lastUpdateId, batchEnd, pollPc, isPolling, isShuttingDown,
                   wordCache, settings, cacheGhost, trackHistory, oracleVars>>

\* handleWordCheck returns (sess.state = 'idle') and runLongOp's finally runs
WordCheckReturns ==
    \E o \in 1..Len(ops) :
    /\ session.up /\ Running(o)
    /\ Settle(o)
    /\ session' = [session EXCEPT !.sessions[ops[o].chat].state = "idle"]
    /\ UNCHANGED <<inbox, lastUpdateId, batchEnd, isPolling, isShuttingDown, wordCache,
                   settings, cacheGhost, trackHistory, oracleVars>>

NextPrompt ==
    \/ HandleExplorerKey
    \/ HandleAIFallbackAdd
    \/ CancelPrompt
    \/ OtherCallback
    \/ CommandMessage
    \/ ExplorerKeyMessage
    \/ FallbackKeyMessage
    \/ WordMessage
    \/ WordCheckReturns

SpecPrompt == Init /\ [][NextPrompt]_vars

(* ======================= properties of the bot ========================= *)
CacheHandlers == {"word", "deep", "batch", "topic", "aitopic", "dict"}
WriteBackHandlers == {"word", "deep", "batch", "topic", "aitopic"}

OpIds == 1..Len(ops)
WordIds(o) == 1..Len(ops[o].words)

\* C1: at most one check operation is in progress at any time: while a
\* runLongOp operation has not settled the poll loop starts no other handler,
\* and an operation awaited inline keeps the poll loop from dispatching
C1_AtMostOneCheck ==
    /\ Len(ops) <= 1
    /\ \A o \in OpIds : ops[o].mode = "long" => longRunning
    /\ \A o \in OpIds : ops[o].mode = "inline" => pollPc = "await" /\ isPolling

\* a long operation is running and the poll loop is about to dispatch another update
C1_Witness ==
    /\ Len(ops) = 1 /\ ops[1].mode = "long" /\ ops[1].pc = "query"
    /\ pollPc = "loop" /\ lastUpdateId < batchEnd /\ NextUpdate = "other"

\* a stop update that Telegram received after operation o started and that the
\* poll loop has not yet taken
StopDelivered(o) ==
    \E id \in (ops[o].born + 1)..Len(inbox) : id > lastUpdateId /\ inbox[id] = "stop"

\* C2: a stop request delivered while any check operation is running is
\* processed immediately: the poll loop is never held up waiting for the very
\* operation the stop is meant for
C2_StopProcessedImmediately ==
    \A o \in OpIds : StopDelivered(o) => pollPc # "await"

\* C3: a handler that consults the cache skips a word (no balance query and no
\* cacheWordResult for it) exactly when the lookup returned a record with
\* hasBalance = false; without a stop every other word is queried
C3_SkipIffCachedNoBalance ==
    \A o \in OpIds : ops[o].h \in CacheHandlers =>
        \A j \in WordIds(o) :
            /\ ops[o].lookups[j] = "false" => j \notin ops[o].qd \cup ops[o].wr
            /\ (ops[o].pc = "finish" /\ ~ops[o].broke) =>
                   /\ ops[o].lookups[j] # "na"
                   /\ ops[o].lookups[j] \in {"none", "true"} => j \in ops[o].qd

\* a handler has finished, having skipped a word on a hasBalance = false record
\* and queried another word whose record had hasBalance = true
C3_Witness ==
    \E o \in OpIds :
        /\ ops[o].pc = "finish" /\ ~ops[o].broke /\ ops[o].h \in CacheHandlers
        /\ \E j, k \in WordIds(o) :
              /\ ops[o].lookups[j] = "false" /\ j \notin ops[o].qd
              /\ ops[o].lookups[k] = "true" /\ k \in ops[o].qd

\* a query of word j that is over: the handler moved on or returned
CurrentWord(o) ==
    IF ops[o].h \in ListHandlers
    THEN IF ops[o].i \in 1..Len(ops[o].kept) THEN ops[o].kept[ops[o].i] ELSE 0
    ELSE ops[o].i

QueryOver(o, j) == j \in ops[o].qd /\ ~(ops[o].pc = "query" /\ CurrentWord(o) = j)

C5_NoBalanceRecordOnlyFromCompletedCheck ==
    \A k \in Keys :
        (wordCache[k].present /\ ~wordCache[k].hasBalance) => cacheGhost[k].complete

\* C6: once the record of a phrase has hasBalance = true, no later check leaves
\* it with hasBalance = false
C6_HasBalanceNeverCleared ==
    [][\A k \in Keys : (wordCache[k].present /\ wordCache[k].hasBalance)
                          => (wordCache'[k].present /\ wordCache'[k].hasBalance)]_vars

\* the addresses handler o derives for its j-th word under the chat's current settings
DerivedFor(o, j) ==
    IF ops[o].h = "dict"
    THEN UNION {ToSet(DictionaryAddresses(ops[o].words[j], Repeats[r])) : r \in 1..Len(Repeats)}
    ELSE ToSet(WordCheckAddresses(ops[o].words[j], settings[ops[o].chat]))

\* C7: whenever a handler skips a phrase on a cached hasBalance = false record,
\* every address it would derive for the phrase under the chat's current
\* settings was balance-checked when that record was written
C7_SkipIsSound ==
    \A o \in OpIds : ops[o].h \in CacheHandlers =>
        \A j \in WordIds(o) :
            ops[o].lookups[j] = "false" =>
                DerivedFor(o, j) \subseteq cacheGhost[NormalizeWord(ops[o].words[j])].covered

(* =================== properties of the balance oracle ================== *)
\* no query of call c has been started yet
NoQueryIssued(c) == c.inflight = {} /\ c.answers = {} /\ c.failed = {}

\* the mapping made of the answers providers gave during call c
AnswersMapping(c) ==
    [a \in {e.addr : e \in c.answers} |->
        LET e == CHOOSE x \in c.answers : x.addr = a
        IN  [balance |-> e.balance, provider |-> e.provider]]

\* C8: cooperative cancellation in checkBalances. Once shouldStop returns true
\* (the flag handed to the call is set, or the call has observed it) no new
\* provider query is started, though queries in flight may complete; the call
\* then returns the answers collected so far as a value, not an error; and a
\* call that returns without having started any query returns an empty mapping.
C8_CooperativeCancellation ==
    [][/\ (call.pc = "running" /\ (call.stopSeen \/ (call.usesFlag /\ stopCurrentBatch)))
            => call'.inflight \subseteq call.inflight
       /\ (call.pc = "running" /\ call'.pc = "returned" /\ call.stopSeen)
            => call'.ret = [kind |-> "value", mapping |-> AnswersMapping(call),
                            any |-> FALSE]
       /\ (call.pc = "running" /\ call'.pc = "returned" /\ NoQueryIssued(call))
            => call'.ret = [kind |-> "value", mapping |-> <<>>, any |-> FALSE]]_vars

\* a cancelled call returned part of its addresses, the rest never queried again
C8_Witness ==
    /\ call.pc = "returned"
    /\ call.stopSeen
    /\ call.todo # {}
    /\ DOMAIN call.ret.mapping # {}
    /\ call.ret.kind = "value"

\* C9: checkBalances never fails because of provider faults. Whatever way a
\* call ends, every provider exhausted included, it returns a value and every
\* answer a provider gave during the call is in the returned mapping.
C9_PartialResultsNotThrown ==
    (call.pc = "returned" /\ call.op = "checkBalances") =>
        /\ call.ret.kind = "value"
        /\ \A e \in call.answers :
              /\ e.addr \in DOMAIN call.ret.mapping
              /\ call.ret.mapping[e.addr] = [balance |-> e.balance, provider |-> e.provider]

\* every provider failed during the call, after one address had been answered
C9_Witness ==
    /\ call.pc = "returned"
    /\ call.op = "checkBalances"
    /\ call.failed = ProviderSet
    /\ call.todo # {}
    /\ call.answers # {}
    /\ ~call.stopSeen

\* the step in which a query in flight gets a rate-limit or transient-error signal
FailedQueries == IF call'.answers = call.answers THEN call.inflight \ call'.inflight ELSE {}

\* C10: provider fallback. A failure signal marks the provider unhealthy (cooldown,
\* failure counted) and puts the address back among the outstanding ones, keeping
\* the answers obtained; a query is only started for an outstanding address, on
\* the healthiest provider that is neither cooling down nor failed in this call;
\* and a call that ends while only provider pa failed, pa having answered nothing
\* and the other provider pb being healthy, returns every address with pb named
\* as its provider, formatApiHealth() reporting pa as not ok.
C10_ProviderFallback ==
    [][call.pc = "running" =>
        /\ \A q \in FailedQueries :
              /\ q.addr \in call'.todo
              /\ q.provider \in call'.failed
              /\ health'[q.provider].cooling
              /\ health'[q.provider].failure > 0
              /\ call'.results = call.results
        /\ \A q \in call'.inflight \ call.inflight :
              /\ q.addr \in call.todo
              /\ q.addr \notin DOMAIN call.results
              /\ q.provider \notin call.failed
              /\ ~health[q.provider].cooling
              /\ call.pref = "auto" =>
                    \A p \in ProviderSet :
                        (p \notin call.failed /\ ~health[p].cooling)
                            => health[q.provider].failure <= health[p].failure
        /\ \A pa, pb \in ProviderSet :
              (/\ call'.pc = "returned"
               /\ call.op = "checkBalances"
               /\ ~call.stopSeen
               /\ call.failed = {pa}
               /\ pb # pa
               /\ ~health[pb].cooling
               /\ \A e \in call.answers : e.provider # pa)
              => /\ call'.ret.kind = "value"
                 /\ DOMAIN call'.ret.mapping = call.capped
                 /\ \A a \in call.capped : call'.ret.mapping[a].provider = pb
                 /\ FormatApiHealth[pa] # "ok"]_vars

\* A rate-limited every address of a two-address call and B answered both
C10_Witness ==
    /\ call.pc = "returned"
    /\ call.op = "checkBalances"
    /\ call.failed = {"A"}
    /\ Cardinality(call.capped) = 2
    /\ DOMAIN call.ret.mapping = call.capped
    /\ \A a \in call.capped : call.ret.mapping[a].provider = "B"
    /\ FormatApiHealth["A"] # "ok"

\* C11: checkBalances and hasAnyBalance always terminate. Whatever providers
\* do (answers, rate limits, transient errors, timeouts turned into failures),
\* no call stays in progress forever: again and again the oracle is idle or
\* has returned.
C11_CallsTerminate == []<>(call.pc \in {"idle", "returned"})

\* both providers failed during a hasAnyBalance call that nevertheless returned
C11_Witness ==
    /\ call.pc = "returned"
    /\ call.op = "hasAnyBalance"
    /\ call.failed = ProviderSet
    /\ call.todo # {}

\* some provider reported a positive balance during call c
PositiveAnswer(c) == \E e \in c.answers : e.balance > 0

WithinCap(input, maxAddresses) ==
    {input[i] : i \in {k \in 1..Len(input) :
                          Cardinality({input[j] : j \in 1..k}) <= maxAddresses}}

\* the addresses call c has sent to a provider or reports in its result
Touched(c) ==
    {q.addr : q \in c.inflight} \cup {e.addr : e \in c.answers}
        \cup DOMAIN c.results \cup DOMAIN c.ret.mapping

\* C13: address cap. checkBalances works on the first maxAddresses addresses of
\* its deduplicated input and on nothing else: the addresses it keeps are exactly
\* those, at most maxAddresses of them, and no query, answer or entry of the
\* returned mapping is ever for an address outside them.
C13_AddressCap ==
    [][call'.op = "checkBalances" =>
        /\ (call.pc = "called" /\ call'.pc = "running") =>
              /\ call'.capped = WithinCap(call.input, call.cap)
              /\ call'.beyond = ToSet(call.input) \ call'.capped
              /\ Cardinality(call'.capped) <= call.cap
        /\ call.pc \in {"running", "returned"} => call'.capped = call.capped
        /\ Touched(call') \subseteq call'.capped]_vars

\* a call whose input had more addresses than the cap returned every address
\* within the cap and none beyond it
C13_Witness ==
    /\ call.pc = "returned"
    /\ call.op = "checkBalances"
    /\ call.beyond # {}
    /\ call.capped # {}
    /\ DOMAIN call.ret.mapping = call.capped

\* the queries that got an answer in this step
AnsweredQueries == IF call'.answers # call.answers THEN call.inflight \ call'.inflight ELSE {}

\* C14: cooldown. In auto mode a query is never started on a provider that is
\* cooling down while some provider is not; a step of a call never ends a
\* cooldown (only the passing of the cooldown time does); and every provider
\* call updates that provider's health: an answer counts a success, a failure
\* signal counts a failure and starts the cooldown (counts saturate at MaxCount).
C14_Cooldown ==
    [][/\ \A q \in call'.inflight \ call.inflight :
              (call.pref = "auto" /\ \E p \in ProviderSet : ~health[p].cooling)
                  => ~health[q.provider].cooling
       /\ call' # call =>
              \A p \in ProviderSet : health[p].cooling => health'[p].cooling
       /\ \A q \in AnsweredQueries :
              health'[q.provider].success = Min(health[q.provider].success + 1, MaxCount)
       /\ \A q \in FailedQueries :
              /\ health'[q.provider].failure = Min(health[q.provider].failure + 1, MaxCount)
              /\ health'[q.provider].cooling]_vars

\* an auto-mode call has a query on provider B while provider A, first in the
\* registry, no less healthy by its counts and not failed in this call, is
\* cooling down
C14_Witness ==
    /\ call.pc = "running"
    /\ call.pref = "auto"
    /\ \E q \in call.inflight : q.provider = "B"
    /\ health["A"].cooling
    /\ "A" \notin call.failed
    /\ health["A"].failure <= health["B"].failure

(* =================== properties of the word cache ====================== *)
\* this step is a cacheWordResult call
CacheCallStep == session'.last.seq # session.last.seq /\ session'.last.op = "cache"

\* C15: cacheWordResult is an idempotent upsert. After a call the phrase's
\* record is the one given; a call that repeats the arguments of the call just
\* before it leaves the whole cache, getWordCacheSize() included, as it was;
\* and a call for a phrase that already has a record replaces that record and
\* leaves getWordCacheSize() and every other record unchanged.
C15_IdempotentUpsert ==
    [][CacheCallStep =>
        LET p == session'.last.phrase
            r == session'.last.rec
        IN  /\ GetCachedWordResult(wordCache', p) = r
            /\ (session.last.op = "cache" /\ session.last.phrase = p /\ session.last.rec = r)
                  => /\ wordCache' = wordCache
                     /\ GetWordCacheSize(wordCache') = GetWordCacheSize(wordCache)
            /\ GetCachedWordResult(wordCache, p) # NoRecord
                  => /\ GetWordCacheSize(wordCache') = GetWordCacheSize(wordCache)
                     /\ \A k \in DOMAIN wordCache :
                           wordCache'[k] # wordCache[k] => wordCache'[k] = r]_vars

\* a call replaced a phrase's record by a different one, the other phrase
\* being recorded too
C15_Witness ==
    /\ session.up
    /\ session.last.op = "cache"
    /\ session.last.had # NoRecord
    /\ session.last.had # session.last.rec
    /\ GetCachedWordResult(wordCache, session.last.phrase) = session.last.rec
    /\ GetWordCacheSize(wordCache) = 2

\* two characters that are the same letter
SameLetter(c, d) == c = d \/ {c, d} \in {{"A", "a"}, {"B", "b"}}

Blank(s) == \A i \in 1..Len(s) : s[i] = " "

\* p and q differ only in letter case or in leading/trailing whitespace
SameUpToCaseAndBlanks(p, q) ==
    \E pl \in 0..Len(p), pr \in 0..Len(p), ql \in 0..Len(q), qr \in 0..Len(q) :
        /\ pl + pr <= Len(p)
        /\ ql + qr <= Len(q)
        /\ Blank(SubSeq(p, 1, pl)) /\ Blank(SubSeq(p, Len(p) - pr + 1, Len(p)))
        /\ Blank(SubSeq(q, 1, ql)) /\ Blank(SubSeq(q, Len(q) - qr + 1, Len(q)))
        /\ Len(p) - pl - pr = Len(q) - ql - qr
        /\ \A i \in 1..(Len(p) - pl - pr) : SameLetter(p[pl + i], q[ql + i])

\* for each phrase, the phrases that differ from it only in that way
Variants == [p \in CachePhrases |-> {q \in CachePhrases : SameUpToCaseAndBlanks(p, q)}]

\* this step is a getCachedWordResult call
GetCallStep == session'.last.seq # session.last.seq /\ session'.last.op = "get"

\* C16: cache keys are case- and whitespace-normalised. A lookup returns what
\* a lookup of any phrase differing only in letter case or leading/trailing
\* whitespace returns; a cacheWordResult call makes its record the one every
\* such phrase resolves to, and it adds to getWordCacheSize() only when no
\* such phrase had a record (then by one).
C16_KeysNormalized ==
    [][/\ GetCallStep =>
            \A q \in Variants[session'.last.phrase] :
                GetCachedWordResult(wordCache, q) = session'.last.result
       /\ CacheCallStep =>
            LET same == Variants[session'.last.phrase]
            IN  /\ \A q \in same : GetCachedWordResult(wordCache', q) = session'.last.rec
                /\ GetWordCacheSize(wordCache') =
                      IF \E q \in same : GetCachedWordResult(wordCache, q) # NoRecord
                      THEN GetWordCacheSize(wordCache)
                      ELSE GetWordCacheSize(wordCache) + 1]_vars

\* a record written under "A " is what a lookup of " a" returned, the cache
\* counting one phrase
C16_Witness ==
    /\ session.last.op = "get"
    /\ session.last.phrase = <<" ", "a">>
    /\ session.last.after = <<"A", " ">>
    /\ session.last.result # NoRecord
    /\ GetWordCacheSize(wordCache) = 1

\* the phrases that get their first record in this step
NewlyRecorded == {k \in DOMAIN wordCache : wordCache[k] = NoRecord /\ wordCache'[k] # NoRecord}

\* C17: within a process lifetime no cache record is ever deleted and
\* getWordCacheSize() never decreases. Whatever the handlers do, a phrase that
\* has a record keeps having one, and the size, zero with nothing recorded,
\* grows exactly by the phrases recorded for the first time.
C17_NeverDeleted ==
    [][/\ \A k \in DOMAIN wordCache : wordCache[k] # NoRecord => wordCache'[k] # NoRecord
       /\ GetWordCacheSize(wordCache') >= GetWordCacheSize(wordCache)
       /\ GetWordCacheSize(wordCache') = GetWordCacheSize(wordCache) + Cardinality(NewlyRecorded)]_vars

\* both phrases are recorded while a handler is still running: the record
\* written first outlived the later writes
C17_Witness ==
    /\ ~isShuttingDown
    /\ ops # <<>>
    /\ \A k \in Keys : wordCache[k] # NoRecord
    /\ GetWordCacheSize(wordCache) = Cardinality(Keys)

(* ================= properties of the persisted store =================== *)
\* this step is the start of the next process
StartStep == ~session.up /\ session'.up

\* C18 as stated: however the process stopped, shutdown or crash, the size
\* reported after the next start is at least the size reported before the stop.
C18_SizeAcrossRestarts ==
    [][StartStep => GetWordCacheSize(wordCache') >= session.sizeAtStop]_vars

\* C18 as amended: after a graceful shutdown the size reported at the next
\* start is at least the size reported before the stop; after a crash it is at
\* least the size at the last completed flush.
C18_SizeAcrossRestarts_Amended ==
    [][StartStep =>
        /\ ~session.crashed => GetWordCacheSize(wordCache') >= session.sizeAtStop
        /\ GetWordCacheSize(wordCache') >= Cardinality(session.flushed)]_vars

\* a process restarted after a shutdown reports the two phrases it had recorded
C18_Witness ==
    /\ session.up
    /\ ~session.crashed
    /\ session.last.op = "none"
    /\ session.sizeAtStop = 2
    /\ GetWordCacheSize(wordCache) = 2

\* C19: at-least-once durability. The cache a start loads contains every
\* record of the last completed flush (timer or shutdown), each as it was
\* flushed; what can be missing was written after that flush.
C19_FlushedRecordsSurvive ==
    [][StartStep =>
        \A e \in session.flushed : wordCache'[e[1]] = e[2]]_vars

\* a process restarted after a crash has the flushed record and lacks the one
\* written after the flush
C19_Witness ==
    /\ session.up
    /\ session.crashed
    /\ session.last.op = "none"
    /\ session.sizeAtStop = 2
    /\ GetWordCacheSize(wordCache) = 1
    /\ RecordsOf(wordCache) = session.flushed

(* ================= properties of the derived addresses ================= *)
NoDuplicates(d) == \A i \in 1..Len(d) : \A j \in 1..Len(d) : i # j => d[i] # d[j]

\* where address a first occurs in raw
FirstIndex(raw, a) == CHOOSE k \in 1..Len(raw) : raw[k] = a /\ \A m \in 1..(k - 1) : raw[m] # a

\* d holds the addresses of raw once each, in the order of their first occurrence
FirstSeenOrder(d, raw) ==
    /\ NoDuplicates(d)
    /\ ToSet(d) = ToSet(raw)
    /\ \A i \in 1..Len(d) : \A j \in 1..Len(d) :
          i < j => FirstIndex(raw, d[i]) < FirstIndex(raw, d[j])

\* the dedup of handleWordCheck, over every phrase and configuration
DedupKeepsFirstSeen ==
    \A w \in CachePhrases : \A cfg \in DerivationConfigs :
        FirstSeenOrder(Dedup(DeriveAllAddresses(w, cfg)), DeriveAllAddresses(w, cfg))

\* handlers whose address list comes from handleWordCheck or fullWordCheck
DerivingHandlers == {"word", "deep", "batch", "topic", "aitopic"}

\* C20: the address list submitted to the balance oracle has no duplicates and
\* keeps first-seen order. The list handleWordCheck is left with after its
\* dedup holds every derived address once, in the order of first derivation,
\* for every variation setting, enabled modes, repeat counts, paths and index
\* count; and no step gives a handler that takes its list from handleWordCheck
\* or fullWordCheck a list with a duplicate.
C20_NoDuplicateAddresses ==
    [][/\ DedupKeepsFirstSeen
       /\ \A o \in 1..Len(ops') :
              (ops'[o].h \in DerivingHandlers /\ (o > Len(ops) \/ ops'[o].addrs # ops[o].addrs))
                  => NoDuplicates(ops'[o].addrs)
       /\ Len(ops') = Len(ops) =>
              \A o \in 1..Len(ops) :
                  (AtWordCheckStart(ops[o]) /\ ops'[o].pc = "lookup")
                      => FirstSeenOrder(ops'[o].addrs,
                                        WordCheckDerived(ops[o].words[1], settings[ops[o].chat]))]_vars

\* handleWordCheck holds the addresses of "b", whose lower-case variation is
\* "b" again: fewer addresses than the derivation loop produced
C20_Witness ==
    \E o \in 1..Len(ops) :
        /\ ops[o].h = "word"
        /\ ops[o].pc = "lookup"
        /\ ops[o].words[1] = <<"b">>
        /\ ops[o].addrs # <<>>
        /\ Len(ops[o].addrs) < Len(WordCheckDerived(<<"b">>, settings[ops[o].chat]))

(* ------------------------- random key hunt ------------------------------ *)
\* keys a key-hunt operation has generated once its generation loop is over
KeysScanned(o) == Len(ops[o].addrs) \div 2

\* C21: a key hunt asked for n keys scans exactly n valid keys: once its
\* generation loop is over, the keys it holds number the count it was given
C21_ExactlyCountKeys ==
    \A o \in 1..Len(ops) :
        (ops[o].h = "keyhunt" /\ ops[o].pc \in {"query", "finish"})
            => KeysScanned(o) = Len(ops[o].words)

(* ------------------------ the cancellation signal ----------------------- *)
\* operation o issues a checkBalances / hasAnyBalance call in this step
IssuesBalanceCall(o) ==
    /\ o <= Len(ops)
    /\ ops'[o].pc = "query"
    /\ (ops[o].pc # "query" \/ ops'[o].rep # ops[o].rep)

\* C22: every checkBalances / hasAnyBalance call is given a shouldStop that
\* answers true once a stop was requested: a call issued while the stop flag
\* is raised stops before its first query
C22_EveryCallObservesStop ==
    [][\A o \in 1..Len(ops') :
          (IssuesBalanceCall(o) /\ stopCurrentBatch) => ops'[o].stopAtCall]_vars

(* --------------------------- runLongOp settles -------------------------- *)
\* an operation started by runLongOp leaves in this step, the process still up
LongOpSettles ==
    /\ ~isShuttingDown'
    /\ Len(ops') < Len(ops)
    /\ \E o \in 1..Len(ops) : ops[o].mode = "long" /\ ops' = RemoveOp(o)

\* C23: when an operation started by runLongOp settles, resolved or rejected,
\* longRunning and stopCurrentBatch are both false afterwards; and the gate of
\* the poll loop is shut only while such an operation is still running, so a
\* failed operation never leaves the bot answering "An operation is running"
C23_SettleReopensGate ==
    [][/\ LongOpSettles => (~longRunning' /\ ~stopCurrentBatch')
       /\ longRunning' => \E o \in 1..Len(ops') : ops'[o].mode = "long"]_vars

\* a deep check was abandoned by a rejection (nothing else leaves var_depth at
\* "extreme" with no deep check running), both flags are down again and the
\* next update has started a long operation
C23_Witness ==
    /\ ~isShuttingDown
    /\ settings[1].var_depth = "extreme"
    /\ Len(ops) = 1
    /\ ops[1].h = "word" /\ ops[1].mode = "long" /\ ops[1].pc = "start"
    /\ lastUpdateId = 2
    /\ longRunning /\ ~stopCurrentBatch

(* ------------------ updates that arrive during a long operation --------- *)
\* the poll loop takes an update other than a stop request while the gate is shut
TakesWhileRunning ==
    /\ lastUpdateId' = lastUpdateId + 1
    /\ lastUpdateId < Len(inbox)
    /\ NextUpdate = "other"
    /\ longRunning

\* C24: a text received while a long operation runs is queued, not lost: the
\* poll loop does not put it behind the getUpdates offset unless a handler is
\* started for it or it is kept for handling after the operation completes
\* (the program keeps no such queue, so only the first can save the message)
C24_TextQueuedNotLost ==
    [][TakesWhileRunning => Len(ops') > Len(ops)]_vars

(* ------------------------- a stop request while idle -------------------- *)
\* handlers that read stopCurrentBatch (handleRandomKeyHunt never does)
PollsStopFlag == Handlers \ {"keyhunt"}

\* C25: a stop request received while nothing runs has no effect on the next
\* operation: an operation that polls stopCurrentBatch begins with the flag
\* false, whether runLongOp starts it or the dispatcher awaits it inline
C25_OperationsBeginUnstopped ==
    [][(Len(ops') > Len(ops) /\ ops'[Len(ops')].h \in PollsStopFlag)
           => ~stopCurrentBatch']_vars

(* --------------------------- cancellation per chat ---------------------- *)
\* C26: cancellation is isolated per chat: the stop request that makes the
\* shouldStop of a running operation return true was sent from the chat the
\* operation runs for
C26_StopIsolatedPerChat ==
    \A o \in 1..Len(ops) :
        ops[o].stopFrom # 0 => ops[o].stopFrom = ops[o].chat

(* -------------------- a stop during the derivation phase ---------------- *)
\* a word check whose derivation loop was ended by the stop flag
StoppedInDerivation(op) == op.h \in {"word", "deep"} /\ op.broke

DictIterationEnds(o) ==
    /\ Len(ops') = Len(ops)
    /\ ops[o].h = "dict" /\ ops[o].pc \in {"query", "notify"}
    /\ (ops'[o].pc = "finish" \/ ops'[o].i > ops[o].i)

\* C28: when handleDictionary processes a word that had no cache record and
\* hasAnyBalance returned true for one of its repeat counts (the hit is in the
\* cache while the iteration is still in progress), the record of the word
\* after the iteration has hasBalance = true
C28_DictionaryRetainsHit ==
    [][\A o \in 1..Len(ops) :
          (/\ DictIterationEnds(o)
           /\ ops[o].lookups[ops[o].i] = "none"
           /\ CacheLookup(wordCache, ops[o].words[ops[o].i]) = "true")
              => CacheLookup(wordCache', ops[o].words[ops[o].i]) = "true"]_vars

(* ----------------------- the address count of a record ------------------ *)
\* C29: the addressCount of a cache record is the number of addresses that
\* were balance-checked for the phrase: it equals the number of addresses the
\* check that wrote the record submitted to the oracle and had answered, and
\* never exceeds the per-call cap
C29_AddressCountIsCheckedCount ==
    \A k \in Keys :
        wordCache[k] # NoRecord =>
            /\ wordCache[k].addressCount = Cardinality(cacheGhost[k].covered)
            /\ wordCache[k].addressCount <= ADDRESS_CAP

(* ------------------------- the bodies of pollUpdates -------------------- *)
\* C30: pollUpdates bodies never overlap and polling always resumes: a body
\* starts only when none is in progress and isPolling is false, isPolling is
\* true for as long as the body is in progress, and every way out of the body
\* (the loop's end, getUpdates throwing, a handler throwing) leaves isPolling
\* false, so that the next tick of the timer starts a body
C30_PollBodiesNeverOverlap ==
    [][/\ (pollPc' = "getUpdates" /\ pollPc # "getUpdates")
              => (pollPc = "idle" /\ ~isPolling)
       /\ pollPc' # "idle" => isPolling'
       /\ pollPc' = "idle" => ~isPolling'
       /\ (pollPc' = "idle" /\ ~isShuttingDown') => PollGuard']_vars

\* a handler threw in the middle of a batch (the loop was left with updates of
\* the batch untaken) and the timer has started the next body
C30_Witness ==
    /\ ~isShuttingDown
    /\ pollPc = "getUpdates" /\ isPolling
    /\ lastUpdateId < batchEnd
    /\ ops = <<>>

(* ------------------- every update is dispatched once -------------------- *)
\* the updates the poll loop has not taken: the ones Telegram still returns
Undispatched(box) == {i \in 1..Len(box) : box[i] # "taken"}

\* the pending getUpdates resolves in this step
BatchArrives == pollPc = "getUpdates" /\ pollPc' = "loop"

\* C31: every update is dispatched at most once and lastUpdateId never
\* decreases: the loop takes updates one by one in update_id order, an update
\* it has taken is never taken again, and the updates not yet taken are exactly
\* those above lastUpdateId; so when a handler throws in the middle of a batch
\* the later updates of the batch are still above the offset, and the batch the
\* next getUpdates returns holds every one of them
C31_DispatchedOnceNoneLost ==
    [][/\ lastUpdateId' \in {lastUpdateId, lastUpdateId + 1}
       /\ \A i \in 1..Len(inbox') : (inbox'[i] = "taken") <=> (i <= lastUpdateId')
       /\ \A i \in 1..Len(inbox) : inbox[i] = "taken" => inbox'[i] = "taken"
       /\ BatchArrives => batchEnd' = Len(inbox')]_vars

\* a handler and its error report both failed on the first update of a batch of
\* two: the body is over, lastUpdateId is the failing update, and the second
\* update is still to be returned by the next getUpdates
C31_Witness ==
    /\ ~isShuttingDown
    /\ pollPc = "idle" /\ ~isPolling
    /\ lastUpdateId = 1 /\ batchEnd = 2
    /\ Undispatched(inbox) = {2}
    /\ ops = <<>>

(* -------------------- the var_depth of a deep check --------------------- *)
\* operation o is a handleDeepCheck that has saved oldDepth and raised var_depth
DeepCheckRaised(o) == ops[o].h = "deep" /\ ops[o].oldDepth # "na"

\* handleDeepCheck o terminates in this step, by returning or by throwing
DeepCheckTerminates(o) == ~isShuttingDown' /\ ops' = RemoveOp(o)

\* shutdown() saves the settings in this step
SettingsSaved == isShuttingDown' /\ ~isShuttingDown

\* C32: handleDeepCheck changes var_depth only temporarily: when it terminates,
\* whether handleWordCheck returned or threw, and at a shutdown that saves the
\* settings while it runs, the chat's var_depth is the value it had before the
\* call
C32_DeepCheckRestoresDepth ==
    [][\A o \in 1..Len(ops) :
          (DeepCheckRaised(o) /\ (DeepCheckTerminates(o) \/ SettingsSaved))
              => settings'[ops[o].chat].var_depth = ops[o].oldDepth]_vars

(* ------------------------ a dismissed key prompt ------------------------ *)
\* the kinds of update after which a chat is taken to await no key
Dismissals == {"cancel", "callback", "command"}

\* a text that is not a command is handled for chat c in this step, the update
\* handled before it for the chat being a dismissal
TextAfterDismissal(c) ==
    /\ session.handled[c] \in Dismissals
    /\ session'.handled[c] = "text"

\* C33: after a key prompt is dismissed with its Cancel button, or after any
\* other callback or command is handled, the session awaits no key: the next
\* text that is not a command starts a word check and is not stored as a key
C33_DismissedPromptStoresNoKey ==
    [][\A c \in Chats :
          TextAfterDismissal(c) =>
              /\ Len(ops') = Len(ops) + 1
              /\ ops'[Len(ops')].h = "word" /\ ops'[Len(ops')].chat = c
              /\ settings' = settings]_vars

(* ----------------- what the user is shown of the balances --------------- *)
\* handlers whose last message to the chat reports on balances
ReportingHandlers == {"word", "deep", "brain", "batch", "topic", "aitopic"}

\* words a list handler checked this round (results.length)
CheckedThisRound(op) == Min(op.i - 1, Len(op.kept))

\* the last message a handler sends to the user's chat, as far as it speaks of
\* the check: buildResultsMessage for a word check, balanceText for a brain
\* wallet, the summary of the list handlers
UserReport(op) ==
    IF op.h \in {"word", "deep"}
    THEN [addresses |-> Len(op.addrs), balances |-> "All 0 BTC", note |-> ""]
    ELSE IF op.h = "brain"
    THEN [addresses |-> op.answered, balances |-> "0 BTC", note |-> ""]
    ELSE IF op.h = "batch"
    THEN [addresses |-> CheckedThisRound(op), balances |-> "Found: 0", note |-> ""]
    ELSE IF op.h = "topic"
    THEN [addresses |-> CheckedThisRound(op), balances |-> "Found: 0",
          note |-> IF ~op.foundAny THEN "No balances found." ELSE ""]
    ELSE [addresses |-> CheckedThisRound(op), balances |-> "Found: 0",
          note |-> "No balances found."]

\* the same run of the handler had the oracle returned a zero balance everywhere
ZeroBalances(op) == [op EXCEPT !.found = FALSE, !.foundAny = FALSE]

\* C34: what the user is shown never depends on the balances found: the last
\* message of handleWordCheck, handleBrainWallet, handleBatch,
\* handleTopicExplore and handleAITopicExpand is the one the same run sends when
\* every balance the oracle returned is zero
C34_UserReportIgnoresBalances ==
    \A o \in 1..Len(ops) :
        (ops[o].h \in ReportingHandlers /\ ops[o].pc = "finish")
            => UserReport(ops[o]) = UserReport(ZeroBalances(ops[o]))

(* --------------------------- graceful shutdown -------------------------- *)
\* shutdown() runs in this step
ShutdownBegins == isShuttingDown' /\ ~isShuttingDown

\* C35: once shutdown has begun no new body of pollUpdates starts and no
\* further update is dispatched, no handler takes another step; shutdown leaves
\* stopCurrentBatch set and has saved the sessions (the word cache as it is)
\* and the settings (as they are) when the process exits
C35_GracefulShutdown ==
    [][/\ isShuttingDown =>
              /\ pollPc' = pollPc /\ isPolling' = isPolling
              /\ lastUpdateId' = lastUpdateId /\ inbox' = inbox
              /\ ops' = ops /\ wordCache' = wordCache
       /\ ShutdownBegins =>
              /\ stopCurrentBatch'
              /\ session'.disk = SaveSessions(wordCache)
              /\ session'.settingsFile = settings
              /\ ~session'.up
              /\ pollPc' = "idle" /\ ops' = <<>>]_vars

\* shutdown came in the middle of a batch, with a check recorded in the cache:
\* the update still untaken is never dispatched and the record is in the store
C35_Witness ==
    /\ isShuttingDown /\ stopCurrentBatch
    /\ lastUpdateId < batchEnd
    /\ inbox[batchEnd] # "taken"
    /\ GetWordCacheSize(wordCache) > 0
    /\ session.disk = SaveSessions(wordCache)
    /\ session.settingsFile = settings
====
